---- MODULE Spec2Model ----
(***************************************************************************)
(* A model of the o11y package: the operation wrapper Run (run.go), the    *)
(* copy-on-write metric registry (metric_registry.go) and the package      *)
(* initialisation (o11y.go).                                               *)
(*                                                                         *)
(* Three state machines share the registry state:                          *)
(*   Spec     Init and concurrent Run calls, one step per statement of Run *)
(*   SpecReg  InitStandardMetrics, concurrent Register* calls and a        *)
(*            recorder, one step per atomic operation of register          *)
(*   SpecRec  concurrent AddToIntCounter calls, one step per atomic        *)
(*            operation of addToIntCounterImpl                             *)
(***************************************************************************)
EXTENDS Integers, Sequences, FiniteSets, TLC

\* ------------------------------------------------------------------ bounds
MaxRuns == 2        \* Run calls in total
MaxInits == 1       \* calls of Init
MaxRegs == 1        \* instruments the application registers
MaxReads == 1       \* AddToIntCounter calls made while registrations go on
NumRecorders == 2   \* goroutines calling AddToIntCounter (N)
AddsPerRecorder == 3 \* AddToIntCounter calls of each of them (M)
MaxOps == 3         \* registry API calls made one after the other
MaxCtx == 3         \* contexts in existence, context.Background() included
NumRequests == 2    \* HTTP requests served through the middleware
NumRpcs == 2        \* gRPC calls served through the interceptors
MaxAgain == 1       \* calls of the aggregate shutdown after its first
MaxReinits == 1     \* calls of Init after its first
NumProducers == 2   \* log agent: files, each parsed by one producer
EntriesPerFile == 2 \* log agent: entries parsed from each file
BatchSize == 2      \* log agent: cfg.BatchSize

\* --------------------------------------------------------------- constants
\* The goroutines calling Run.
Callers == {"g1", "g2"}

\* The goroutines calling Register*.
Registrars == {"p1", "p2"}

\* The goroutines calling AddToIntCounter.
Recorders == 1..NumRecorders

\* The name and kind arguments of the application's Register* calls.
UserNames == {"dynamic_counter", "biz.operation.error.total"}
Kinds == {"counter", "histogram"}

\* The registered counter the recorders add to.
CounterUnderTest == "http.server.request.total"

NoInst == [kind |-> "none", id |-> 0]
NoCall == [name |-> "", inst |-> NoInst, old |-> 0, new |-> 0]
NoAdd == [name |-> "", reg |-> 0, val |-> 0]

\* Operation names passed to Run.
OpNames == {"ProcessOrder", "ValidateUser"}

\* The error values fn can return, and the nil error.
NilErr == [type |-> "nil", v |-> "nil"]
BizErrors == {[type |-> "biz", v |-> "e1"], [type |-> "biz", v |-> "e2"]}

\* The values fn can panic with.
PanicValues == {"oops", "boom"}
NoPanic == "none"
\* The runtime panic of a method call on a nil interface value.
NilDeref == "nil pointer dereference"

ErrorCounterName == "biz.operation.error.total"
DurationHistogramName == "biz.operation.duration"

\* The instruments InitStandardMetrics registers, in its order.
StandardMetrics ==
    << <<"http.server.request.duration", "histogram">>,
       <<"http.server.request.total", "counter">>,
       <<"http.server.active_requests", "updown">>,
       <<"rpc.server.panic.total", "counter">>,
       <<"db.client.query.duration", "histogram">>,
       <<DurationHistogramName, "histogram">>,
       <<ErrorCounterName, "counter">>,
       <<"cache.client.operation.total", "counter">> >>

VARIABLES
    Tracer,        \* package-level Tracer: "nil", "global" or "sdk"
    Meter,         \* package-level Meter: 0 is nil, k the Meter of the k-th Init
    inits,         \* number of Init calls made
    registry,      \* atomic.Value: 0 is "never stored", else the id of a map
    maps,          \* the maps some goroutine or the registry refers to: id -> (name -> instrument)
    registryOnce,  \* TRUE once registryOnce.Do has run its function
    instTotal,     \* instrument id -> sum of the values recorded on it (0 before it exists)
    localValues,   \* xsync map: name -> id of its *atomic.Int64
    cells,         \* the atomic.Int64 allocated so far: id -> value
    pc,            \* per caller: position in Run
    opName,        \* per caller: the name argument
    err,           \* per caller: the named result err
    panicking,     \* per caller: the panic being unwound, or NoPanic
    defers,        \* per caller: the stack of deferred calls, top first
    events,        \* per caller: the observability calls Run made, in order
    fnOutcome,     \* per caller: what fn did: returned err / panicked with v
    atCall,        \* per caller: what held when Run was called: Init done, standard metrics registered
    runs,          \* number of Run calls started
    registryMu,    \* the registration mutex: "free" or the process holding it
    ipc,           \* position of the goroutine running initialization
    stdIdx,        \* InitStandardMetrics: index of the next standard instrument
    rpc,           \* per registrar: position in Register* / register
    rcall,         \* per registrar: name, inst, oldMap and newMap
    regs,          \* number of instruments the application's Register* calls created
    completed,     \* the names whose registration has returned
    apc,           \* per recorder: position in addToIntCounterImpl
    acall,         \* per recorder: name, reg (the loaded map) and val (the cell)
    adds,          \* per recorder: number of AddToIntCounter calls started
    ops,           \* number of registry API calls made one after the other
    lastCall,      \* the last of them: op, name, kind, sdkOk
    cfg,           \* the Config Init was called with
    npc,           \* position of the Init call in New / initialization
    trail,         \* the setup, start and shutdown functions invoked, in order
    provider,      \* what New returned: "none", "noop" or "sdk"
    initErr,       \* the error Init returned, "nil" for none
    serving,       \* the Prometheus server goroutine is running
    failure,       \* the fatal configuration error met, "none" for none
    exited,        \* the process was terminated by log.Fatal
    spc,           \* position of the aggregate shutdown
    gpc,           \* position of the two goroutines of its errgroup
    gErr,          \* the error the errgroup keeps: the errors it carries
    err1,          \* metrics shutdown: the result of mp.Shutdown
    failed,        \* the subsystem shutdown errors that were returned
    shutdownErr,   \* the error the aggregate shutdown returns
    ctxs,          \* the contexts in existence: id -> baggage (key -> value)
    bagCall,       \* the last SetBaggage call: ctx, key, value and the context returned
    hpc,           \* per HTTP request: position in the middleware's inner handler
    hlog,          \* per HTTP request: its active_requests calls and handler run, in order
    hreg,          \* per HTTP request: active_requests was registered when it entered
    hpanic,        \* per HTTP request: the wrapped handler panicked
    hcode,         \* per HTTP request: the status code captured by httpsnoop (m.Code)
    hresp,         \* per HTTP request: the status of the response sent, 0 before any
    hcalls,        \* per HTTP request: its request-metric calls, in order
    rpcPc,         \* per gRPC call: position in the server interceptor
    rpcKind,       \* per gRPC call: "unary" or "stream"
    rpcResp,       \* per gRPC call: the named result resp (unary)
    rpcErr,        \* per gRPC call: the named result err
    rpcHandled,    \* per gRPC call: what the handler did, its results or its panic
    rpcCalls,      \* per gRPC call: its panic-metric calls, in order
    rpcReg,        \* per gRPC call: the registered panic counter was there at its recover
    shutdowns,     \* the calls of the aggregate shutdown after its first
    firstErr,      \* the error its first call returned
    expected,      \* per name: the sum of the values of the additions that found their instrument
    reinits,       \* the calls of Init after its first
    mpc,           \* log agent: position of main
    left,          \* log agent: per producer, the entries of its file not yet sent
    chanLen,       \* log agent: the entries buffered in entriesChan
    chanClosed,    \* log agent: entriesChan is closed
    ctxDone,       \* log agent: the context is cancelled
    cpc,           \* log agent: position of the consumer
    batch,         \* log agent: the entries in the consumer's batch
    flushed,       \* log agent: the entries flushed
    sent,          \* log agent: the entries sent on entriesChan
    crashed        \* log agent: a goroutine panicked and ended the process

registryVars == <<registry, maps, registryOnce, instTotal, localValues, cells>>
globalVars == <<Tracer, Meter, inits>>
runVars == <<pc, opName, err, panicking, defers, events, fnOutcome, atCall, runs>>
regVars == <<registryMu, ipc, stdIdx, rpc, rcall, regs, completed>>
recVars == <<apc, acall, adds>>
opsVars == <<ops, lastCall>>
provVars == <<cfg, npc, trail, provider, initErr, serving, failure, exited>>
sdVars == <<spc, gpc, gErr, err1, failed, shutdownErr>>
bagVars == <<ctxs, bagCall>>
httpVars == <<hpc, hlog, hreg, hpanic, hcode, hresp, hcalls>>
grpcVars == <<rpcPc, rpcKind, rpcResp, rpcErr, rpcHandled, rpcCalls, rpcReg>>
againVars == <<shutdowns, firstErr>>
accVars == <<expected>>
reinitVars == <<reinits>>
agentVars == <<mpc, left, chanLen, chanClosed, ctxDone, cpc, batch, flushed, sent, crashed>>
extVars == <<opsVars, provVars, sdVars, bagVars, httpVars, grpcVars, againVars, accVars, reinitVars, agentVars>>
vars == <<globalVars, registryVars, runVars, regVars, recVars, extVars>>

\* No registry API call made yet.
NoOp == [op |-> "none", name |-> "", kind |-> "none", sdkOk |-> TRUE]

\* The HTTP requests served.
Requests == 1..NumRequests

\* The producers of the log agent, one per file.
Producers == 1..NumProducers

\* The gRPC calls served.
RpcCalls == 1..NumRpcs

\* The nil response of a unary call.
NilResp == "nil"

\* The handler of a gRPC call has not run.
NotHandled == [panic |-> "none", resp |-> NilResp, err |-> NilErr]

\* The wrapped handler has not written a response header.
NothingWritten == 0

\* The statuses a wrapped handler writes.
HandlerStatuses == {200, 404}

\* No SetBaggage call made yet.
NoBagCall == [ctx |-> 0, key |-> <<>>, value |-> <<>>, ret |-> 0]

\* The zero Config.
NoConfig == [Enabled |-> FALSE, MetricEnabled |-> FALSE,
             EnableHostMetrics |-> FALSE, Prometheus |-> FALSE]

\* The state of the other machines at process start.
InitExt ==
    /\ ops = 0
    /\ lastCall = NoOp
    /\ cfg = NoConfig
    /\ npc = "idle"
    /\ trail = <<>>
    /\ provider = "none"
    /\ initErr = "nil"
    /\ serving = FALSE
    /\ failure = "none"
    /\ exited = FALSE
    /\ spc = "idle"
    /\ gpc = [g \in {"metrics", "tracing"} |-> "idle"]
    /\ gErr = {}
    /\ err1 = {}
    /\ failed = {}
    /\ shutdownErr = {}
    /\ ctxs = << <<>> >>
    /\ bagCall = NoBagCall
    /\ hpc = [q \in Requests |-> "idle"]
    /\ hlog = [q \in Requests |-> <<>>]
    /\ hreg = [q \in Requests |-> FALSE]
    /\ hpanic = [q \in Requests |-> FALSE]
    /\ hcode = [q \in Requests |-> 200]
    /\ hresp = [q \in Requests |-> NothingWritten]
    /\ hcalls = [q \in Requests |-> <<>>]
    /\ rpcPc = [c \in RpcCalls |-> "idle"]
    /\ rpcKind = [c \in RpcCalls |-> "unary"]
    /\ rpcResp = [c \in RpcCalls |-> NilResp]
    /\ rpcErr = [c \in RpcCalls |-> NilErr]
    /\ rpcHandled = [c \in RpcCalls |-> NotHandled]
    /\ rpcCalls = [c \in RpcCalls |-> <<>>]
    /\ rpcReg = [c \in RpcCalls |-> FALSE]
    /\ shutdowns = 0
    /\ firstErr = {}
    /\ expected = <<>>
    /\ reinits = 0
    /\ mpc = "select"
    /\ left = [p \in Producers |-> EntriesPerFile]
    /\ chanLen = 0
    /\ chanClosed = FALSE
    /\ ctxDone = FALSE
    /\ cpc = "loop"
    /\ batch = 0
    /\ flushed = 0
    /\ sent = 0
    /\ crashed = FALSE

\* ------------------------------------------------------- metric registry
\* getRegistryMap: the current map, or nil (modelled as the id 0).
getRegistryMap == registry

\* A map lookup reg[name]: ok is FALSE when reg is nil or has no such key.
Lookup(reg, name) ==
    IF reg # 0 /\ name \in DOMAIN maps[reg]
    THEN [ok |-> TRUE, inst |-> maps[reg][name]]
    ELSE [ok |-> FALSE, inst |-> NoInst]

\* CopyWith leaving an entry that exists as it is (first writer wins).
CopyWithKeepExisting(oldMap, name, inst) ==
    [k \in DOMAIN oldMap \cup {name} |-> IF k \in DOMAIN oldMap THEN oldMap[k] ELSE inst]

\* The map register builds: a copy of oldMap with name set to inst.
CopyWith(oldMap, name, inst) ==
    [k \in DOMAIN oldMap \cup {name} |-> IF k = name THEN inst ELSE oldMap[k]]

\* The map behind a registry value (nil ranges over nothing).
MapOf(reg) == IF reg = 0 THEN <<>> ELSE maps[reg]

\* GetMetricValue: the accumulator of name, 0 when there is none.
GetMetricValue(name) ==
    IF name \in DOMAIN localValues THEN cells[localValues[name]] ELSE 0

\* Is name registered with an instrument of this kind in the current map?
Registered(name, kind) ==
    LET l == Lookup(getRegistryMap, name) IN l.ok /\ l.inst.kind = kind

\* addToIntCounterImpl run as one step: a miss or a kind mismatch records
\* nothing; otherwise the instrument and the per-name accumulator both get value.
AddToIntCounter(name, value) ==
    LET l == Lookup(getRegistryMap, name) IN
    IF ~l.ok \/ l.inst.kind # "counter"
    THEN UNCHANGED <<instTotal, localValues, cells>>
    ELSE /\ instTotal' = [instTotal EXCEPT ![l.inst.id] = @ + value]
         /\ IF name \in DOMAIN localValues
            THEN /\ cells' = [cells EXCEPT ![localValues[name]] = @ + value]
                 /\ UNCHANGED localValues
            ELSE /\ cells' = Append(cells, value)
                 /\ localValues' = (name :> (Len(cells) + 1)) @@ localValues

\* recordInFloat64HistogramImpl run as one step; the accumulators are untouched.
RecordInFloat64Histogram(name, value) ==
    LET l == Lookup(getRegistryMap, name) IN
    /\ UNCHANGED <<localValues, cells>>
    /\ IF ~l.ok \/ l.inst.kind # "histogram"
       THEN UNCHANGED instTotal
       ELSE instTotal' = [instTotal EXCEPT ![l.inst.id] = @ + value]

\* The ids of the maps the registry or a goroutine's local variable refers to.
LiveIds(reg, rc, ac) ==
    ({reg} \cup {rc[p].old : p \in Registrars} \cup {rc[p].new : p \in Registrars}
           \cup {ac[r].reg : r \in Recorders}) \ {0}

\* The heap of maps once the unreferenced ones are gone.
Collect(m, reg, rc, ac) == [i \in DOMAIN m \cap LiveIds(reg, rc, ac) |-> m[i]]

\* make(map[string]MetricInstrument): the id of a new map.
NewId ==
    CHOOSE i \in 1..(Cardinality(DOMAIN maps) + 1) :
        i \notin DOMAIN maps /\ \A j \in 1..(i - 1) : j \in DOMAIN maps

\* The instrument the i-th Register* call of InitStandardMetrics creates.
StdInst(i) == [kind |-> StandardMetrics[i][2], id |-> i]

\* The map the registrations i.. of InitStandardMetrics lead to from the map m.
RECURSIVE StdFold(_, _)
StdFold(i, m) ==
    IF i > Len(StandardMetrics) THEN m
    ELSE StdFold(i + 1, CopyWith(m, StandardMetrics[i][1], StdInst(i)))

\* InitStandardMetrics without registryOnce: every call registers.
InitStandardMetricsEveryTime ==
    /\ registryOnce' = TRUE
    /\ registry' = NewId
    /\ maps' = Collect((NewId :> StdFold(1, MapOf(registry))) @@ maps,
                       registry', rcall, acall)
    /\ UNCHANGED <<instTotal, localValues, cells>>

\* InitStandardMetrics run without interference: once per process, it stores an
\* empty map if there is none and registers the standard instruments.
InitStandardMetrics ==
    IF registryOnce
    THEN UNCHANGED registryVars
    ELSE /\ registryOnce' = TRUE
         /\ registry' = NewId
         /\ maps' = Collect((NewId :> StdFold(1, MapOf(registry))) @@ maps,
                            registry', rcall, acall)
         /\ UNCHANGED <<instTotal, localValues, cells>>

\* ------------------------------------------------------------------- Init
\* initialization: New may fail, and then nothing is assigned; otherwise the
\* package-level Tracer and Meter are set and, with cfg.Metric.Enabled, the
\* standard metrics are registered.
Initialize(cfgEnabled, metricEnabled, setupFails) ==
    /\ inits < MaxInits
    /\ inits' = inits + 1
    /\ IF cfgEnabled /\ setupFails
       THEN UNCHANGED <<Tracer, Meter, registryVars>>
       ELSE /\ Tracer' = IF cfgEnabled THEN "sdk" ELSE "global"
            /\ Meter' = inits + 1
            /\ IF metricEnabled
               THEN InitStandardMetrics
               ELSE UNCHANGED registryVars
    /\ UNCHANGED runVars

\* -------------------------------------------------------------------- Run
Event(ev, c, e) == [ev |-> ev, op |-> opName[c], err |-> e]

\* fmt.Errorf("panic recovered in o11y.Run: %v", r)
PanicErr(r) == [type |-> "panic recovered in o11y.Run", v |-> r]

\* The log entry of s.IncCounter("biz.operation.error.total", operation=name):
\* there is one when the step changed what the instruments hold.
ErrIncEvents(c) ==
    IF instTotal' # instTotal THEN <<Event("ErrInc", c, NilErr)>> ELSE <<>>

\* The log entry of s.RecordHistogram("biz.operation.duration", duration,
\* operation=name): there is one when the step changed what the instruments hold.
DurSampleEvents(c) ==
    IF instTotal' # instTotal THEN <<Event("DurSample", c, NilErr)>> ELSE <<>>

\* A goroutine calls Run(ctx, name, fn).
RunCall(c, name) ==
    /\ pc[c] = "idle"
    /\ runs < MaxRuns
    /\ runs' = runs + 1
    /\ pc' = [pc EXCEPT ![c] = "span"]
    /\ opName' = [opName EXCEPT ![c] = name]
    /\ err' = [err EXCEPT ![c] = NilErr]
    /\ panicking' = [panicking EXCEPT ![c] = NoPanic]
    /\ defers' = [defers EXCEPT ![c] = <<>>]
    /\ events' = [events EXCEPT ![c] = <<>>]
    /\ fnOutcome' = [fnOutcome EXCEPT ![c] = [kind |-> "none", err |-> NilErr, v |-> NoPanic]]
    /\ atCall' = [atCall EXCEPT ![c] =
            [init |-> Tracer # "nil",
             metrics |-> Registered(ErrorCounterName, "counter")
                         /\ Registered(DurationHistogramName, "histogram")]]
    /\ UNCHANGED <<globalVars, registryVars>>

\* RunStartSpan with span.End() called at once instead of deferred.
RunStartSpanEndNotDeferred(c) ==
    /\ pc[c] = "span"
    /\ IF Tracer = "nil"
       THEN /\ panicking' = [panicking EXCEPT ![c] = NilDeref]
            /\ pc' = [pc EXCEPT ![c] = "unwind"]
            /\ UNCHANGED <<events, defers>>
       ELSE /\ events' = [events EXCEPT ![c] =
                    @ \o <<Event("SpanStart", c, NilErr), Event("SpanEnd", c, NilErr)>>]
            /\ pc' = [pc EXCEPT ![c] = "guard"]
            /\ UNCHANGED <<panicking, defers>>
    /\ UNCHANGED <<globalVars, registryVars, opName, err, fnOutcome, atCall, runs>>

\* ctxWithSpan, span := Tracer.Start(ctx, name); defer span.End()
\* A nil Tracer makes the call panic, with no deferred call installed yet.
RunStartSpan(c) ==
    /\ pc[c] = "span"
    /\ IF Tracer = "nil"
       THEN /\ panicking' = [panicking EXCEPT ![c] = NilDeref]
            /\ pc' = [pc EXCEPT ![c] = "unwind"]
            /\ UNCHANGED <<events, defers>>
       ELSE /\ events' = [events EXCEPT ![c] = Append(@, Event("SpanStart", c, NilErr))]
            /\ defers' = [defers EXCEPT ![c] = <<"end">> \o @]
            /\ pc' = [pc EXCEPT ![c] = "guard"]
            /\ UNCHANGED panicking
    /\ UNCHANGED <<globalVars, registryVars, opName, err, fnOutcome, atCall, runs>>

\* defer func() { if r := recover(); r != nil { ... } }()
RunInstallGuard(c) ==
    /\ pc[c] = "guard"
    /\ defers' = [defers EXCEPT ![c] = <<"guard">> \o @]
    /\ pc' = [pc EXCEPT ![c] = "timer"]
    /\ UNCHANGED <<globalVars, registryVars, opName, err, panicking, events, fnOutcome, atCall, runs>>

\* RunInstallDuration with the recording made at once instead of deferred.
RunInstallDurationNotDeferred(c) ==
    /\ pc[c] = "timer"
    /\ RecordInFloat64Histogram(DurationHistogramName, 1)
    /\ events' = [events EXCEPT ![c] = @ \o DurSampleEvents(c)]
    /\ pc' = [pc EXCEPT ![c] = "fn"]
    /\ UNCHANGED <<globalVars, registry, maps, registryOnce, opName, err, panicking, defers, fnOutcome, atCall, runs>>

\* startTime := time.Now(); defer func() { ... s.RecordHistogram(...) }()
RunInstallDuration(c) ==
    /\ pc[c] = "timer"
    /\ defers' = [defers EXCEPT ![c] = <<"duration">> \o @]
    /\ pc' = [pc EXCEPT ![c] = "fn"]
    /\ UNCHANGED <<globalVars, registryVars, opName, err, panicking, events, fnOutcome, atCall, runs>>

\* err = fn(ctxWithLogger, s), fn returning e (nil or an error).
RunFnReturns(c, e) ==
    /\ pc[c] = "fn"
    /\ err' = [err EXCEPT ![c] = e]
    /\ fnOutcome' = [fnOutcome EXCEPT ![c] = [kind |-> "return", err |-> e, v |-> NoPanic]]
    /\ events' = [events EXCEPT ![c] = Append(@, Event("FnDone", c, NilErr))]
    /\ pc' = [pc EXCEPT ![c] = "result"]
    /\ UNCHANGED <<globalVars, registryVars, opName, panicking, defers, atCall, runs>>

\* err = fn(ctxWithLogger, s), fn panicking with r: the assignment and the result
\* handling are skipped and the deferred calls run.
RunFnPanics(c, r) ==
    /\ pc[c] = "fn"
    /\ panicking' = [panicking EXCEPT ![c] = r]
    /\ fnOutcome' = [fnOutcome EXCEPT ![c] = [kind |-> "panic", err |-> NilErr, v |-> r]]
    /\ events' = [events EXCEPT ![c] = Append(@, Event("FnDone", c, NilErr))]
    /\ pc' = [pc EXCEPT ![c] = "unwind"]
    /\ UNCHANGED <<globalVars, registryVars, opName, err, defers, atCall, runs>>

\* RunResult marking the span Ok whatever fn returned.
RunResultAlwaysOk(c) ==
    /\ pc[c] = "result"
    /\ IF err[c] # NilErr
       THEN /\ AddToIntCounter(ErrorCounterName, 1)
            /\ events' = [events EXCEPT ![c] =
                    @ \o <<Event("RecordError", c, err[c]), Event("SetStatusOk", c, NilErr)>>
                      \o ErrIncEvents(c)]
       ELSE /\ events' = [events EXCEPT ![c] = Append(@, Event("SetStatusOk", c, NilErr))]
            /\ UNCHANGED <<instTotal, localValues, cells>>
    /\ pc' = [pc EXCEPT ![c] = "unwind"]
    /\ UNCHANGED <<globalVars, registry, maps, registryOnce, opName, err, panicking, defers, fnOutcome, atCall, runs>>

\* 5. Result Handling, then return err.
RunResult(c) ==
    /\ pc[c] = "result"
    /\ IF err[c] # NilErr
       THEN /\ AddToIntCounter(ErrorCounterName, 1)
            /\ events' = [events EXCEPT ![c] =
                    @ \o <<Event("RecordError", c, err[c]), Event("SetStatusError", c, NilErr)>>
                      \o ErrIncEvents(c)]
       ELSE /\ events' = [events EXCEPT ![c] = Append(@, Event("SetStatusOk", c, NilErr))]
            /\ UNCHANGED <<instTotal, localValues, cells>>
    /\ pc' = [pc EXCEPT ![c] = "unwind"]
    /\ UNCHANGED <<globalVars, registry, maps, registryOnce, opName, err, panicking, defers, fnOutcome, atCall, runs>>

\* The deferred duration recorder.
DeferredDuration(c) ==
    /\ RecordInFloat64Histogram(DurationHistogramName, 1)
    /\ events' = [events EXCEPT ![c] = @ \o DurSampleEvents(c)]
    /\ UNCHANGED <<err, panicking>>

\* DeferredGuard without the assignment to the named result (Run declared
\* with an unnamed result, as it once was).
DeferredGuardNoAssign(c) ==
    IF panicking[c] # NoPanic
    THEN /\ panicking' = [panicking EXCEPT ![c] = NoPanic]
         /\ AddToIntCounter(ErrorCounterName, 1)
         /\ events' = [events EXCEPT ![c] =
                 @ \o <<Event("RecordError", c, PanicErr(panicking[c])),
                        Event("SetStatusError", c, NilErr)>>
                   \o ErrIncEvents(c)]
         /\ UNCHANGED err
    ELSE UNCHANGED <<panicking, events, err, instTotal, localValues, cells>>

\* DeferredGuard counting every failed call, not only the panics.
DeferredGuardCountsErrors(c) ==
    IF panicking[c] # NoPanic \/ err[c] # NilErr
    THEN /\ panicking' = [panicking EXCEPT ![c] = NoPanic]
         /\ AddToIntCounter(ErrorCounterName, 1)
         /\ events' = [events EXCEPT ![c] =
                 @ \o (IF panicking[c] # NoPanic
                       THEN <<Event("RecordError", c, PanicErr(panicking[c])),
                              Event("SetStatusError", c, NilErr)>>
                       ELSE <<>>)
                   \o ErrIncEvents(c)]
         /\ err' = [err EXCEPT ![c] = IF panicking[c] # NoPanic THEN PanicErr(panicking[c]) ELSE @]
    ELSE UNCHANGED <<panicking, events, err, instTotal, localValues, cells>>

\* The deferred recovery guard: recover() stops a panic and turns it into err.
DeferredGuard(c) ==
    IF panicking[c] # NoPanic
    THEN /\ panicking' = [panicking EXCEPT ![c] = NoPanic]
         /\ AddToIntCounter(ErrorCounterName, 1)
         /\ events' = [events EXCEPT ![c] =
                 @ \o <<Event("RecordError", c, PanicErr(panicking[c])),
                        Event("SetStatusError", c, NilErr)>>
                   \o ErrIncEvents(c)]
         /\ err' = [err EXCEPT ![c] = PanicErr(panicking[c])]
    ELSE UNCHANGED <<panicking, events, err, instTotal, localValues, cells>>

\* The deferred span.End().
DeferredEnd(c) ==
    /\ events' = [events EXCEPT ![c] = Append(@, Event("SpanEnd", c, NilErr))]
    /\ UNCHANGED <<err, panicking, instTotal, localValues, cells>>

\* Run is returning or panicking: the deferred calls run, last installed first.
RunDeferred(c) ==
    /\ pc[c] = "unwind"
    /\ defers[c] # <<>>
    /\ defers' = [defers EXCEPT ![c] = Tail(@)]
    /\ CASE Head(defers[c]) = "duration" -> DeferredDuration(c)
         [] Head(defers[c]) = "guard" -> DeferredGuard(c)
         [] Head(defers[c]) = "end" -> DeferredEnd(c)
    /\ UNCHANGED <<globalVars, registry, maps, registryOnce, pc, opName, fnOutcome, atCall, runs>>

\* No deferred call is left: Run returns err, or the panic reaches its caller.
RunReturn(c) ==
    /\ pc[c] = "unwind"
    /\ defers[c] = <<>>
    /\ pc' = [pc EXCEPT ![c] = IF panicking[c] # NoPanic THEN "panicked" ELSE "returned"]
    /\ UNCHANGED <<globalVars, registryVars, opName, err, panicking, defers, events, fnOutcome, atCall, runs>>

\* The goroutine goes on after Run (after recovering from its panic, if any);
\* the finished call's locals are gone.
RunNext(c) ==
    /\ pc[c] \in {"returned", "panicked"}
    /\ runs < MaxRuns
    /\ pc' = [pc EXCEPT ![c] = "idle"]
    /\ opName' = [opName EXCEPT ![c] = "ProcessOrder"]
    /\ err' = [err EXCEPT ![c] = NilErr]
    /\ panicking' = [panicking EXCEPT ![c] = NoPanic]
    /\ events' = [events EXCEPT ![c] = <<>>]
    /\ fnOutcome' = [fnOutcome EXCEPT ![c] = [kind |-> "none", err |-> NilErr, v |-> NoPanic]]
    /\ atCall' = [atCall EXCEPT ![c] = [init |-> FALSE, metrics |-> FALSE]]
    /\ UNCHANGED <<globalVars, registryVars, defers, runs>>

Init ==
    /\ Tracer = "nil"
    /\ Meter = 0
    /\ inits = 0
    /\ registry = 0
    /\ maps = <<>>
    /\ registryOnce = FALSE
    /\ instTotal = [i \in 1..(Len(StandardMetrics) + MaxRegs) |-> 0]
    /\ localValues = <<>>
    /\ cells = <<>>
    /\ pc = [c \in Callers |-> "idle"]
    /\ opName = [c \in Callers |-> "ProcessOrder"]
    /\ err = [c \in Callers |-> NilErr]
    /\ panicking = [c \in Callers |-> NoPanic]
    /\ defers = [c \in Callers |-> <<>>]
    /\ events = [c \in Callers |-> <<>>]
    /\ fnOutcome = [c \in Callers |-> [kind |-> "none", err |-> NilErr, v |-> NoPanic]]
    /\ atCall = [c \in Callers |-> [init |-> FALSE, metrics |-> FALSE]]
    /\ runs = 0
    /\ registryMu = "free"
    /\ ipc = "start"
    /\ stdIdx = 1
    /\ rpc = [p \in Registrars |-> "idle"]
    /\ rcall = [p \in Registrars |-> NoCall]
    /\ regs = 0
    /\ completed = {}
    /\ apc = [r \in Recorders |-> "idle"]
    /\ acall = [r \in Recorders |-> NoAdd]
    /\ adds = [r \in Recorders |-> 0]
    /\ InitExt

Next ==
    \/ \E ce, me, f \in BOOLEAN : Initialize(ce, me, f) /\ UNCHANGED <<regVars, recVars, extVars>>
    \/ \E c \in Callers, n \in OpNames : RunCall(c, n) /\ UNCHANGED <<regVars, recVars, extVars>>
    \/ \E c \in Callers : RunStartSpan(c) /\ UNCHANGED <<regVars, recVars, extVars>>
    \/ \E c \in Callers : RunInstallGuard(c) /\ UNCHANGED <<regVars, recVars, extVars>>
    \/ \E c \in Callers : RunInstallDuration(c) /\ UNCHANGED <<regVars, recVars, extVars>>
    \/ \E c \in Callers, e \in BizErrors \cup {NilErr} :
            RunFnReturns(c, e) /\ UNCHANGED <<regVars, recVars, extVars>>
    \/ \E c \in Callers, r \in PanicValues : RunFnPanics(c, r) /\ UNCHANGED <<regVars, recVars, extVars>>
    \/ \E c \in Callers : RunResult(c) /\ UNCHANGED <<regVars, recVars, extVars>>
    \/ \E c \in Callers : RunDeferred(c) /\ UNCHANGED <<regVars, recVars, extVars>>
    \/ \E c \in Callers : RunReturn(c) /\ UNCHANGED <<regVars, recVars, extVars>>
    \/ \E c \in Callers : RunNext(c) /\ UNCHANGED <<regVars, recVars, extVars>>

Spec == Init /\ [][Next]_vars

\* ------------------------------------------- registration, step by step
\* The application calls RegisterInt64Counter / RegisterFloat64Histogram /
\* RegisterInt64UpDownCounter: a nil Meter or a failed instrument creation
\* returns at once, nothing changed; otherwise the instrument exists and
\* register is entered.
UserRegister(p, name, kind, sdkOk) ==
    /\ rpc[p] = "idle"
    /\ regs < MaxRegs
    /\ IF Meter = 0 \/ ~sdkOk
       THEN UNCHANGED <<rpc, rcall, regs>>
       ELSE /\ regs' = regs + 1
            /\ rcall' = [rcall EXCEPT ![p] =
                   [name |-> name,
                    inst |-> [kind |-> kind, id |-> Len(StandardMetrics) + regs + 1],
                    old |-> 0, new |-> 0]]
            /\ rpc' = [rpc EXCEPT ![p] = "lock"]
    /\ UNCHANGED <<globalVars, registryVars, registryMu, ipc, stdIdx, completed>>

\* registryMu.Lock()
RegisterLock(p) ==
    /\ rpc[p] = "lock"
    /\ registryMu = "free"
    /\ registryMu' = p
    /\ rpc' = [rpc EXCEPT ![p] = "copy"]
    /\ UNCHANGED <<globalVars, registryVars, ipc, stdIdx, rcall, regs, completed>>

\* RegisterCopy writing the new entry into the map it loaded, without a copy.
RegisterCopyInPlace(p) ==
    /\ rpc[p] = "copy"
    /\ LET id == IF getRegistryMap = 0 THEN NewId ELSE getRegistryMap IN
       /\ maps' = (id :> CopyWith(MapOf(getRegistryMap), rcall[p].name, rcall[p].inst)) @@ maps
       /\ rcall' = [rcall EXCEPT ![p].old = getRegistryMap, ![p].new = id]
    /\ rpc' = [rpc EXCEPT ![p] = "store"]
    /\ UNCHANGED <<globalVars, registry, registryOnce, instTotal, localValues, cells,
                   registryMu, ipc, stdIdx, regs, completed>>

\* oldMap := getRegistryMap(); newMap := a copy of oldMap; newMap[name] = inst
RegisterCopy(p) ==
    /\ rpc[p] = "copy"
    /\ maps' = (NewId :> CopyWith(MapOf(getRegistryMap), rcall[p].name, rcall[p].inst)) @@ maps
    /\ rcall' = [rcall EXCEPT ![p].old = getRegistryMap, ![p].new = NewId]
    /\ rpc' = [rpc EXCEPT ![p] = "store"]
    /\ UNCHANGED <<globalVars, registry, registryOnce, instTotal, localValues, cells,
                   registryMu, ipc, stdIdx, regs, completed>>

\* registry.Store(newMap)
RegisterStore(p) ==
    /\ rpc[p] = "store"
    /\ registry' = rcall[p].new
    /\ maps' = Collect(maps, registry', rcall, acall)
    /\ rpc' = [rpc EXCEPT ![p] = "unlock"]
    /\ UNCHANGED <<globalVars, registryOnce, instTotal, localValues, cells,
                   registryMu, ipc, stdIdx, rcall, regs, completed>>

\* The deferred registryMu.Unlock(); register and Register* return.
RegisterUnlock(p) ==
    /\ rpc[p] = "unlock"
    /\ registryMu' = "free"
    /\ rpc' = [rpc EXCEPT ![p] = "idle"]
    /\ rcall' = [rcall EXCEPT ![p] = NoCall]
    /\ maps' = Collect(maps, registry, rcall', acall)
    /\ completed' = completed \cup {rcall[p].name}
    /\ UNCHANGED <<globalVars, registry, registryOnce, instTotal, localValues, cells,
                   ipc, stdIdx, regs>>

\* initialization, after New succeeded: Tracer = p.Tracer; Meter = p.Meter
InitAssignGlobals ==
    /\ ipc = "start"
    /\ Tracer' = "sdk"
    /\ Meter' = inits + 1
    /\ inits' = inits + 1
    /\ ipc' = "once"
    /\ UNCHANGED <<registryVars, registryMu, stdIdx, rpc, rcall, regs, completed>>

\* InitStandardMetrics: registryOnce.Do(...) and the test registry.Load() == nil
InitCheckRegistry ==
    /\ ipc = "once"
    /\ registryOnce' = TRUE
    /\ ipc' = IF registryOnce THEN "done"
              ELSE IF registry = 0 THEN "storeEmpty" ELSE "std"
    /\ UNCHANGED <<globalVars, registry, maps, instTotal, localValues, cells,
                   registryMu, stdIdx, rpc, rcall, regs, completed>>

\* InitStandardMetrics: registry.Store(make(map[string]MetricInstrument)),
\* made without registryMu.
InitStoreEmpty ==
    /\ ipc = "storeEmpty"
    /\ registry' = NewId
    /\ maps' = Collect((NewId :> <<>>) @@ maps, registry', rcall, acall)
    /\ ipc' = "std"
    /\ UNCHANGED <<globalVars, registryOnce, instTotal, localValues, cells,
                   registryMu, stdIdx, rpc, rcall, regs, completed>>

\* InitStandardMetrics: the next Register* call of its list, from the creation
\* of the instrument to the return of register; it takes registryMu, so it runs
\* when no other registration holds it.
InitRegisterNext ==
    /\ ipc = "std"
    /\ stdIdx <= Len(StandardMetrics)
    /\ registryMu = "free"
    /\ registry' = NewId
    /\ maps' = Collect((NewId :> CopyWith(MapOf(getRegistryMap), StandardMetrics[stdIdx][1],
                                          StdInst(stdIdx))) @@ maps,
                       registry', rcall, acall)
    /\ completed' = completed \cup {StandardMetrics[stdIdx][1]}
    /\ stdIdx' = stdIdx + 1
    /\ UNCHANGED <<globalVars, registryOnce, instTotal, localValues, cells,
                   registryMu, ipc, rpc, rcall, regs>>

\* InitStandardMetrics returns.
InitFinish ==
    /\ ipc = "std"
    /\ stdIdx > Len(StandardMetrics)
    /\ ipc' = "done"
    /\ UNCHANGED <<globalVars, registryVars, registryMu, stdIdx, rpc, rcall, regs, completed>>

\* ---------------------------------------------- recording, step by step
\* A goroutine calls AddToIntCounter(ctx, name, 1): reg := getRegistryMap(),
\* returning at once when there is no map.
RecLoad(r, name, quota) ==
    /\ apc[r] = "idle"
    /\ adds[r] < quota
    /\ adds' = [adds EXCEPT ![r] = @ + 1]
    /\ acall' = [acall EXCEPT ![r] = [name |-> name, reg |-> getRegistryMap, val |-> 0]]
    /\ apc' = [apc EXCEPT ![r] = IF getRegistryMap = 0 THEN "idle" ELSE "lookup"]
    /\ UNCHANGED <<globalVars, registryVars, regVars>>

\* instrument, ok := reg[name]; the kind test; instrument.Int64Counter.Add(...)
RecLookupAdd(r) ==
    /\ apc[r] = "lookup"
    /\ LET l == Lookup(acall[r].reg, acall[r].name) IN
       IF ~l.ok \/ l.inst.kind # "counter"
       THEN /\ apc' = [apc EXCEPT ![r] = "idle"]
            /\ UNCHANGED instTotal
       ELSE /\ instTotal' = [instTotal EXCEPT ![l.inst.id] = @ + 1]
            /\ apc' = [apc EXCEPT ![r] = "loadOrStore"]
    /\ acall' = [acall EXCEPT ![r].reg = 0]
    /\ maps' = Collect(maps, registry, rcall, acall')
    /\ UNCHANGED <<globalVars, registry, registryOnce, localValues, cells,
                   regVars, adds>>

\* RecLoadOrStore with localValues.Store in place of LoadOrStore.
RecStoreAlways(r) ==
    /\ apc[r] = "loadOrStore"
    /\ cells' = Append(cells, 0)
    /\ localValues' = (acall[r].name :> (Len(cells) + 1)) @@ localValues
    /\ acall' = [acall EXCEPT ![r].val = Len(cells) + 1]
    /\ apc' = [apc EXCEPT ![r] = "add"]
    /\ UNCHANGED <<globalVars, registry, maps, registryOnce, instTotal, regVars, adds>>

\* val, _ := localValues.LoadOrStore(name, &atomic.Int64{})
RecLoadOrStore(r) ==
    /\ apc[r] = "loadOrStore"
    /\ IF acall[r].name \in DOMAIN localValues
       THEN /\ acall' = [acall EXCEPT ![r].val = localValues[acall[r].name]]
            /\ UNCHANGED <<localValues, cells>>
       ELSE /\ cells' = Append(cells, 0)
            /\ localValues' = (acall[r].name :> (Len(cells) + 1)) @@ localValues
            /\ acall' = [acall EXCEPT ![r].val = Len(cells) + 1]
    /\ apc' = [apc EXCEPT ![r] = "add"]
    /\ UNCHANGED <<globalVars, registry, maps, registryOnce, instTotal, regVars, adds>>

\* val.Add(value); AddToIntCounter returns.
RecAdd(r) ==
    /\ apc[r] = "add"
    /\ cells' = [cells EXCEPT ![acall[r].val] = @ + 1]
    /\ acall' = [acall EXCEPT ![r] = NoAdd]
    /\ apc' = [apc EXCEPT ![r] = "idle"]
    /\ UNCHANGED <<globalVars, registry, maps, registryOnce, instTotal, localValues,
                   regVars, adds>>

\* The registry machine: the process starts, one goroutine runs initialization
\* with metrics enabled, others call Register*, and one records.
RegReader == CHOOSE r \in Recorders : \A q \in Recorders : r <= q

NextReg ==
    \/ InitAssignGlobals /\ UNCHANGED <<runVars, recVars, extVars>>
    \/ InitCheckRegistry /\ UNCHANGED <<runVars, recVars, extVars>>
    \/ InitStoreEmpty /\ UNCHANGED <<runVars, recVars, extVars>>
    \/ InitRegisterNext /\ UNCHANGED <<runVars, recVars, extVars>>
    \/ InitFinish /\ UNCHANGED <<runVars, recVars, extVars>>
    \/ \E p \in Registrars, n \in UserNames, k \in Kinds, ok \in BOOLEAN :
            UserRegister(p, n, k, ok) /\ UNCHANGED <<runVars, recVars, extVars>>
    \/ \E p \in Registrars : RegisterLock(p) /\ UNCHANGED <<runVars, recVars, extVars>>
    \/ \E p \in Registrars : RegisterCopy(p) /\ UNCHANGED <<runVars, recVars, extVars>>
    \/ \E p \in Registrars : RegisterStore(p) /\ UNCHANGED <<runVars, recVars, extVars>>
    \/ \E p \in Registrars : RegisterUnlock(p) /\ UNCHANGED <<runVars, recVars, extVars>>
    \/ \E n \in UserNames : RecLoad(RegReader, n, MaxReads) /\ UNCHANGED <<runVars, extVars>>
    \/ RecLookupAdd(RegReader) /\ UNCHANGED <<runVars, extVars>>
    \/ RecLoadOrStore(RegReader) /\ UNCHANGED <<runVars, extVars>>
    \/ RecAdd(RegReader) /\ UNCHANGED <<runVars, extVars>>

SpecReg == Init /\ [][NextReg]_vars

\* The recording machine: Init has succeeded with metrics enabled, and N
\* goroutines call AddToIntCounter on registered counters, M times each.
InitRec ==
    /\ Tracer = "sdk"
    /\ Meter = 1
    /\ inits = 1
    /\ registry = 1
    /\ maps = (1 :> StdFold(1, <<>>))
    /\ registryOnce = TRUE
    /\ instTotal = [i \in 1..(Len(StandardMetrics) + MaxRegs) |-> 0]
    /\ localValues = <<>>
    /\ cells = <<>>
    /\ pc = [c \in Callers |-> "idle"]
    /\ opName = [c \in Callers |-> "ProcessOrder"]
    /\ err = [c \in Callers |-> NilErr]
    /\ panicking = [c \in Callers |-> NoPanic]
    /\ defers = [c \in Callers |-> <<>>]
    /\ events = [c \in Callers |-> <<>>]
    /\ fnOutcome = [c \in Callers |-> [kind |-> "none", err |-> NilErr, v |-> NoPanic]]
    /\ atCall = [c \in Callers |-> [init |-> FALSE, metrics |-> FALSE]]
    /\ runs = 0
    /\ registryMu = "free"
    /\ ipc = "start"
    /\ stdIdx = 1
    /\ rpc = [p \in Registrars |-> "idle"]
    /\ rcall = [p \in Registrars |-> NoCall]
    /\ regs = 0
    /\ completed = {}
    /\ apc = [r \in Recorders |-> "idle"]
    /\ acall = [r \in Recorders |-> NoAdd]
    /\ adds = [r \in Recorders |-> 0]
    /\ InitExt

NextRec ==
    \/ \E r \in Recorders : RecLoad(r, CounterUnderTest, AddsPerRecorder) /\ UNCHANGED <<runVars, extVars>>
    \/ \E r \in Recorders : RecLookupAdd(r) /\ UNCHANGED <<runVars, extVars>>
    \/ \E r \in Recorders : RecLoadOrStore(r) /\ UNCHANGED <<runVars, extVars>>
    \/ \E r \in Recorders : RecAdd(r) /\ UNCHANGED <<runVars, extVars>>

SpecRec == InitRec /\ [][NextRec]_vars

\* ----------------------------------------------------- properties of Run
Finished(c) == pc[c] \in {"returned", "panicked"}

\* The positions of the entries ev in the log of c.
At(c, ev) == {i \in DOMAIN events[c] : events[c][i].ev = ev}

\* The status the span of c has: that of the last SetStatus call.
SpanStatus(c) ==
    LET set == At(c, "SetStatusOk") \cup At(c, "SetStatusError") IN
    IF set = {} THEN "Unset"
    ELSE LET last == CHOOSE i \in set : \A j \in set : j <= i IN
         IF events[c][last].ev = "SetStatusOk" THEN "Ok" ELSE "Error"

\* The error Run hands to its caller when fn did this.
ExpectedErr(o) == IF o.kind = "panic" THEN PanicErr(o.v) ELSE o.err

\* C1: a Run call made after Init returns (no panic reaches its caller); it
\* returns nil when fn returned nil, the very error fn returned when fn returned
\* one, and a non-nil error made from the panic value when fn panicked.
C1_RunReturnsFnResult ==
    \A c \in Callers :
        (Finished(c) /\ atCall[c].init) =>
            /\ pc[c] = "returned"
            /\ fnOutcome[c].kind \in {"return", "panic"}
            /\ fnOutcome[c].kind = "return" => err[c] = fnOutcome[c].err
            /\ fnOutcome[c].kind = "panic" =>
                   /\ err[c] # NilErr
                   /\ err[c] \notin BizErrors
                   /\ err[c] = PanicErr(fnOutcome[c].v)

C1_Witness ==
    \E c \in Callers :
        /\ pc[c] = "returned"
        /\ fnOutcome[c].kind = "panic" /\ fnOutcome[c].v = "oops"
        /\ err[c] = PanicErr("oops")
        /\ \E d \in Callers : pc[d] = "returned" /\ err[d] \in BizErrors

\* C2: with the standard metrics registered, a Run call increments the error
\* counter, tagged with the operation name, once when fn returned an error, once
\* when fn panicked and not at all when fn returned nil; never twice.
C2_ErrorCounterOncePerFailure ==
    \A c \in Callers :
        /\ Cardinality(At(c, "ErrInc")) <= 1
        /\ \A i \in At(c, "ErrInc") : events[c][i].op = opName[c]
        /\ (Finished(c) /\ atCall[c].metrics) =>
               Cardinality(At(c, "ErrInc")) =
                   IF fnOutcome[c] = [kind |-> "return", err |-> NilErr, v |-> NoPanic]
                   THEN 0 ELSE 1

C2_Witness ==
    /\ \E c \in Callers :
           /\ pc[c] = "returned" /\ atCall[c].metrics
           /\ fnOutcome[c].kind = "panic"
           /\ Cardinality(At(c, "ErrInc")) = 1
    /\ \E c \in Callers :
           /\ pc[c] = "returned" /\ atCall[c].metrics
           /\ fnOutcome[c].kind = "return" /\ fnOutcome[c].err \in BizErrors
           /\ Cardinality(At(c, "ErrInc")) = 1
    /\ GetMetricValue(ErrorCounterName) = 2

\* A duration sample is recorded only once fn has finished.
DurationAfterFn(c) ==
    \A i \in At(c, "DurSample") : \E j \in At(c, "FnDone") : j < i

\* One duration sample, tagged with the operation name.
OneDurationSample(c) ==
    /\ Cardinality(At(c, "DurSample")) = 1
    /\ \A i \in At(c, "DurSample") : events[c][i].op = opName[c]

\* C3 as stated: every Run call in which fn ran records exactly one duration
\* sample, tagged with the operation name, and only after fn has finished.
C3_Original ==
    \A c \in Callers :
        /\ DurationAfterFn(c)
        /\ (Finished(c) /\ fnOutcome[c].kind # "none") => OneDurationSample(c)

\* C3 (amended): with the standard metrics registered, every Run call records
\* exactly one duration sample, tagged with the operation name, whether fn
\* returned nil, returned an error or panicked; never before fn has finished.
C3_OneDurationSampleWhenRegistered ==
    \A c \in Callers :
        /\ DurationAfterFn(c)
        /\ Cardinality(At(c, "DurSample")) <= 1
        /\ (Finished(c) /\ atCall[c].metrics) => OneDurationSample(c)

C3_Witness ==
    \E c \in Callers :
        /\ pc[c] = "returned" /\ atCall[c].metrics
        /\ fnOutcome[c].kind = "panic"
        /\ OneDurationSample(c)
        /\ instTotal[MapOf(registry)[DurationHistogramName].id] = 1

\* C4: the span a Run call started is ended exactly once, and nothing Run does
\* for observability comes after it: status, recorded error, error count and
\* duration sample all precede the end of the span.
C4_SpanEndedOnceAndLast ==
    \A c \in Callers :
        /\ Cardinality(At(c, "SpanEnd")) <= 1
        /\ \A i \in At(c, "SpanEnd") : i = Len(events[c])
        /\ (Finished(c) /\ At(c, "SpanStart") # {}) =>
               Cardinality(At(c, "SpanEnd")) = 1

C4_Witness ==
    \E c \in Callers :
        /\ pc[c] = "returned"
        /\ fnOutcome[c].kind = "panic"
        /\ At(c, "ErrInc") # {} /\ At(c, "DurSample") # {} /\ At(c, "RecordError") # {}
        /\ events[c][Len(events[c])].ev = "SpanEnd"

\* C5: when a Run call has ended its span, the span status is Ok exactly when fn
\* returned nil; otherwise it is Error and the error Run returns (the business
\* error or the error made from the panic) has been recorded on the span.
C5_StatusMatchesOutcome ==
    \A c \in Callers :
        At(c, "SpanEnd") # {} =>
            IF fnOutcome[c] = [kind |-> "return", err |-> NilErr, v |-> NoPanic]
            THEN SpanStatus(c) = "Ok" /\ At(c, "RecordError") = {}
            ELSE /\ SpanStatus(c) = "Error"
                 /\ \E i \in At(c, "RecordError") :
                        events[c][i].err = ExpectedErr(fnOutcome[c])

C5_Witness ==
    /\ \E c \in Callers :
           /\ At(c, "SpanEnd") # {} /\ fnOutcome[c].kind = "return"
           /\ fnOutcome[c].err \in BizErrors /\ SpanStatus(c) = "Error"
    /\ \E c \in Callers :
           /\ At(c, "SpanEnd") # {} /\ fnOutcome[c].kind = "return"
           /\ fnOutcome[c].err = NilErr /\ SpanStatus(c) = "Ok"

\* C6: no Run call ends with a panic reaching its caller.
C6_RunNeverPanics ==
    \A c \in Callers : pc[c] # "panicked"

\* ------------------------------------------------ properties of the registry
RECURSIVE SumAdds(_)
SumAdds(S) ==
    IF S = {} THEN 0
    ELSE LET r == CHOOSE x \in S : TRUE IN adds[r] + SumAdds(S \ {r})

AllReturned == \A r \in Recorders : apc[r] = "idle"

\* C7: once the concurrent AddToIntCounter(name, 1) calls on a registered counter
\* have all returned, GetMetricValue(name) is their number: N x M when each of
\* the N goroutines has made its M calls.
C7_NoLostIncrement ==
    AllReturned =>
        /\ GetMetricValue(CounterUnderTest) = SumAdds(Recorders)
        /\ (\A r \in Recorders : adds[r] = AddsPerRecorder) =>
               GetMetricValue(CounterUnderTest) = NumRecorders * AddsPerRecorder

C7_Witness ==
    /\ AllReturned
    /\ \A r \in Recorders : adds[r] = AddsPerRecorder
    /\ GetMetricValue(CounterUnderTest) = NumRecorders * AddsPerRecorder
    /\ NumRecorders * AddsPerRecorder >= 4

\* The maps that have been stored in registry and are still referred to.
PublishedIds ==
    ({registry} \cup {acall[r].reg : r \in Recorders}
                \cup {rcall[p].old : p \in Registrars}) \ {0}

\* No step changes a published map.
PublishedImmutable ==
    \A id \in PublishedIds : id \in DOMAIN maps' => maps'[id] = maps[id]

\* A recorder's next step can be taken whoever holds registryMu.
RecorderNeverWaits ==
    /\ (apc[RegReader] = "idle" /\ adds[RegReader] < MaxReads) =>
           ENABLED (\E n \in UserNames : RecLoad(RegReader, n, MaxReads))
    /\ apc[RegReader] = "lookup" => ENABLED RecLookupAdd(RegReader)
    /\ apc[RegReader] = "loadOrStore" => ENABLED RecLoadOrStore(RegReader)
    /\ apc[RegReader] = "add" => ENABLED RecAdd(RegReader)

\* C8: a map stored in registry is never modified afterwards, so the map a
\* recorder loaded stays the complete map it was when loaded, whatever
\* registrations follow; and a recorder never waits for registryMu.
C8_SnapshotsImmutable ==
    /\ [][PublishedImmutable]_vars
    /\ []RecorderNeverWaits

C8_Witness ==
    /\ registryMu # "free"
    /\ acall[RegReader].reg # 0
    /\ acall[RegReader].reg # registry
    /\ maps[acall[RegReader].reg] # maps[registry]
    /\ DOMAIN maps[acall[RegReader].reg] # {}

\* C9: every name whose registration has returned is in the current map.
C9_RegisteredNamesStay ==
    \A n \in completed : n \in DOMAIN MapOf(registry)

\* new is old with name set to inst, and inst is not the instrument old had.
Overwrites(old, new, name, inst) ==
    /\ new[name] = inst
    /\ new[name] # old[name]
    /\ DOMAIN new = DOMAIN old
    /\ \A k \in DOMAIN old \ {name} : new[k] = old[k]

\* C10: a registration of a name the map it copies already holds stores a map
\* in which the name has the new instrument, of the kind now asked for, and
\* every other name has the entry it had.
C10_LastWriterWins ==
    [][/\ \A p \in Registrars :
              (/\ rpc[p] = "store" /\ rpc'[p] = "unlock"
               /\ rcall[p].name \in DOMAIN MapOf(rcall[p].old)) =>
                  Overwrites(maps[rcall[p].old], maps'[registry'],
                             rcall[p].name, rcall[p].inst)
       /\ (/\ ipc = "std" /\ stdIdx' = stdIdx + 1
           /\ StandardMetrics[stdIdx][1] \in DOMAIN MapOf(registry)) =>
              Overwrites(maps[registry], maps'[registry'],
                         StandardMetrics[stdIdx][1], StdInst(stdIdx))]_vars

C10_Witness ==
    \E p \in Registrars :
        /\ rpc[p] = "unlock"
        /\ registry = rcall[p].new
        /\ rcall[p].name \in DOMAIN MapOf(rcall[p].old)
        /\ MapOf(rcall[p].old)[rcall[p].name].kind # rcall[p].inst.kind
        /\ maps[registry][rcall[p].name] = rcall[p].inst
        /\ Cardinality(DOMAIN maps[registry]) > 1

\* ------------------------------------- the registry API, call after call
\* The names and kinds the API is called with.
AllKinds == {"counter", "histogram", "updown"}
ApiNames == UserNames \cup {"http.server.active_requests", DurationHistogramName}
RecordOps == {"AddToIntCounter", "AddToInt64UpDownCounter", "RecordInFloat64Histogram"}

\* The field of MetricInstrument each recording function wants non-nil.
RecordingKind(op) ==
    CASE op = "AddToIntCounter" -> "counter"
      [] op = "AddToInt64UpDownCounter" -> "updown"
      [] OTHER -> "histogram"

\* AddToInt64UpDownCounter recording on whatever instrument has the name.
AddToInt64UpDownCounterAnyKind(name, value) ==
    LET l == Lookup(getRegistryMap, name) IN
    IF ~l.ok
    THEN UNCHANGED <<instTotal, localValues, cells>>
    ELSE /\ instTotal' = [instTotal EXCEPT ![l.inst.id] = @ + value]
         /\ IF name \in DOMAIN localValues
            THEN /\ cells' = [cells EXCEPT ![localValues[name]] = @ + value]
                 /\ UNCHANGED localValues
            ELSE /\ cells' = Append(cells, value)
                 /\ localValues' = (name :> (Len(cells) + 1)) @@ localValues

\* AddToInt64UpDownCounter with the accumulator stored anew at each call.
AddToInt64UpDownCounterStore(name, value) ==
    LET l == Lookup(getRegistryMap, name) IN
    IF ~l.ok \/ l.inst.kind # "updown"
    THEN UNCHANGED <<instTotal, localValues, cells>>
    ELSE /\ instTotal' = [instTotal EXCEPT ![l.inst.id] = @ + value]
         /\ IF name \in DOMAIN localValues
            THEN /\ cells' = [cells EXCEPT ![localValues[name]] = value]
                 /\ UNCHANGED localValues
            ELSE /\ cells' = Append(cells, value)
                 /\ localValues' = (name :> (Len(cells) + 1)) @@ localValues

\* addToInt64UpDownCounterImpl run as one step: a miss or a kind mismatch
\* records nothing; otherwise the instrument and the accumulator get value.
AddToInt64UpDownCounter(name, value) ==
    LET l == Lookup(getRegistryMap, name) IN
    IF ~l.ok \/ l.inst.kind # "updown"
    THEN UNCHANGED <<instTotal, localValues, cells>>
    ELSE /\ instTotal' = [instTotal EXCEPT ![l.inst.id] = @ + value]
         /\ IF name \in DOMAIN localValues
            THEN /\ cells' = [cells EXCEPT ![localValues[name]] = @ + value]
                 /\ UNCHANGED localValues
            ELSE /\ cells' = Append(cells, value)
                 /\ localValues' = (name :> (Len(cells) + 1)) @@ localValues

\* register run as one step: the registry becomes a new map, the copy of the
\* current one with name set to inst.
register(name, inst) ==
    /\ registry' = NewId
    /\ maps' = Collect((NewId :> CopyWith(MapOf(getRegistryMap), name, inst)) @@ maps,
                       registry', rcall, acall)

\* One call of the registry API: counted in ops and noted in lastCall.
ApiCall(op, name, kind, sdkOk) ==
    /\ ops < MaxOps
    /\ ops' = ops + 1
    /\ lastCall' = [op |-> op, name |-> name, kind |-> kind, sdkOk |-> sdkOk]

\* Register* installing the entry although the instrument was not created.
RegisterIgnoringFailure(name, kind, sdkOk) ==
    /\ regs < MaxRegs
    /\ regs' = regs + 1
    /\ register(name, [kind |-> kind, id |-> Len(StandardMetrics) + regs + 1])
    /\ UNCHANGED <<registryOnce, instTotal, localValues, cells>>

\* RegisterInt64Counter / RegisterFloat64Histogram / RegisterInt64UpDownCounter:
\* a nil Meter or an error of the SDK returns with nothing installed; otherwise
\* the new instrument is registered under name.
Register(name, kind, sdkOk) ==
    IF Meter = 0 \/ ~sdkOk
    THEN UNCHANGED <<registryVars, regs>>
    ELSE /\ regs < MaxRegs
         /\ regs' = regs + 1
         /\ register(name, [kind |-> kind, id |-> Len(StandardMetrics) + regs + 1])
         /\ UNCHANGED <<registryOnce, instTotal, localValues, cells>>

\* What the registry API calls leave alone.
OpsRest == <<provVars, sdVars, bagVars, httpVars, grpcVars, againVars, accVars, reinitVars, agentVars>>

OpsInit ==
    /\ \E ce, me, f \in BOOLEAN : Initialize(ce, me, f)
    /\ UNCHANGED <<regVars, recVars, extVars>>

OpsRegister ==
    \E n \in UserNames, k \in AllKinds, ok \in BOOLEAN :
        /\ ApiCall("Register", n, k, ok)
        /\ Register(n, k, ok)
        /\ UNCHANGED <<globalVars, runVars, recVars>>
        /\ UNCHANGED <<registryMu, ipc, stdIdx, rpc, rcall, completed, OpsRest>>

OpsAddToIntCounter ==
    \E n \in ApiNames :
        /\ ApiCall("AddToIntCounter", n, "counter", TRUE)
        /\ AddToIntCounter(n, 1)
        /\ UNCHANGED <<globalVars, registry, maps, registryOnce, runVars, regVars, recVars,
                       OpsRest>>

OpsAddToInt64UpDownCounter ==
    \E n \in ApiNames, v \in {1, -1} :
        /\ ApiCall("AddToInt64UpDownCounter", n, "updown", TRUE)
        /\ AddToInt64UpDownCounter(n, v)
        /\ UNCHANGED <<globalVars, registry, maps, registryOnce, runVars, regVars, recVars,
                       OpsRest>>

OpsRecordInFloat64Histogram ==
    \E n \in ApiNames :
        /\ ApiCall("RecordInFloat64Histogram", n, "histogram", TRUE)
        /\ RecordInFloat64Histogram(n, 1)
        /\ UNCHANGED <<globalVars, registry, maps, registryOnce, runVars, regVars, recVars,
                       OpsRest>>

NextOps ==
    \/ OpsInit
    \/ OpsRegister
    \/ OpsAddToIntCounter
    \/ OpsAddToInt64UpDownCounter
    \/ OpsRecordInFloat64Histogram

SpecOps == Init /\ [][NextOps]_vars

\* C11: a recording call whose name has, in the registry it loads, no instrument
\* of the kind the function records on (no registry, no entry, or an entry of
\* another kind) changes neither the registry nor any instrument's total nor
\* any in-process running total.
C11_UnregisteredRecordIsNoOp ==
    [][(/\ ops' = ops + 1
        /\ lastCall'.op \in RecordOps
        /\ ~Registered(lastCall'.name, RecordingKind(lastCall'.op)))
       => UNCHANGED <<registry, maps, instTotal, localValues, cells>>]_vars

C11_Witness ==
    /\ lastCall.op = "AddToInt64UpDownCounter"
    /\ lastCall.name \in DOMAIN MapOf(registry)
    /\ MapOf(registry)[lastCall.name].kind = "counter"
    /\ GetMetricValue(lastCall.name) = 1
    /\ instTotal[MapOf(registry)[lastCall.name].id] = 1

\* C12: a Register* call that cannot create its instrument (the Meter is nil
\* or the SDK returns an error) installs nothing: the registry, its maps and all
\* totals are as before, so a name that was not registered is still not.
C12_FailedRegisterInstallsNothing ==
    [][(/\ ops' = ops + 1
        /\ lastCall'.op = "Register"
        /\ (Meter = 0 \/ ~lastCall'.sdkOk))
       => /\ UNCHANGED <<registryVars, regs>>
          /\ lastCall'.name \notin DOMAIN MapOf(registry) =>
                 ~(registry' # 0 /\ lastCall'.name \in DOMAIN maps'[registry'])]_vars

C12_Witness ==
    /\ lastCall.op = "Register"
    /\ ~lastCall.sdkOk
    /\ Meter # 0
    /\ registry # 0
    /\ lastCall.name \notin DOMAIN MapOf(registry)
    /\ regs < MaxRegs

\* ------------------------------------------- Init: New and initialization
Configs == [Enabled : BOOLEAN, MetricEnabled : BOOLEAN,
            EnableHostMetrics : BOOLEAN, Prometheus : BOOLEAN]

Invoke(f) == trail' = Append(trail, f)

\* Init(cfg) is called.
InitCall(c) ==
    /\ npc = "idle" /\ ~exited
    /\ cfg' = c
    /\ npc' = "new"
    /\ UNCHANGED <<trail, provider, initErr, serving, failure, exited>>
    /\ UNCHANGED <<globalVars, registryVars>>

\* New with cfg.Enabled false: the no-op Provider, no setup function called.
NewDisabled ==
    /\ npc = "new" /\ ~exited /\ ~cfg.Enabled
    /\ provider' = "noop"
    /\ npc' = "assign"
    /\ UNCHANGED <<cfg, trail, initErr, serving, failure, exited>>
    /\ UNCHANGED <<globalVars, registryVars>>

\* New with cfg.Enabled: resource.Merge, which may fail, then setupLogging.
NewResource(ok) ==
    /\ npc = "new" /\ ~exited /\ cfg.Enabled
    /\ IF ok
       THEN /\ npc' = "logging"
            /\ UNCHANGED initErr
       ELSE /\ npc' = "returned"
            /\ initErr' = "resource"
    /\ UNCHANGED <<cfg, trail, provider, serving, failure, exited>>
    /\ UNCHANGED <<globalVars, registryVars>>

NewSetupLogging ==
    /\ npc = "logging" /\ ~exited
    /\ Invoke("setupLogging")
    /\ npc' = "tracing"
    /\ UNCHANGED <<cfg, provider, initErr, serving, failure, exited>>
    /\ UNCHANGED <<globalVars, registryVars>>

\* setupTracing: it succeeds, returns an error (New then rolls logging back),
\* or ends the process with log.Fatal when the exporter cannot be constructed.
NewSetupTracing(outcome) ==
    /\ npc = "tracing" /\ ~exited
    /\ Invoke("setupTracing")
    /\ npc' = CASE outcome = "ok" -> "metrics"
                [] outcome = "err" -> "rollbackTracing"
                [] OTHER -> npc
    /\ failure' = IF outcome = "ok" THEN failure ELSE "trace exporter"
    /\ exited' = (outcome = "fatal")
    /\ UNCHANGED <<cfg, provider, initErr, serving>>
    /\ UNCHANGED <<globalVars, registryVars>>

\* The rollback after a failed tracing setup: logging is shut down.
NewRollbackTracing ==
    /\ npc = "rollbackTracing" /\ ~exited
    /\ Invoke("logShutdown")
    /\ initErr' = "tracing"
    /\ npc' = "returned"
    /\ UNCHANGED <<cfg, provider, serving, failure, exited>>
    /\ UNCHANGED <<globalVars, registryVars>>

\* setupMetrics: only the Prometheus reader can fail; when it is created the
\* metrics server goroutine is started.
NewSetupMetrics(readerOk) ==
    /\ npc = "metrics" /\ ~exited
    /\ readerOk \/ (cfg.MetricEnabled /\ cfg.Prometheus)
    /\ Invoke("setupMetrics")
    /\ npc' = IF readerOk THEN "provider" ELSE "rollbackMetrics"
    /\ serving' = (readerOk /\ cfg.MetricEnabled /\ cfg.Prometheus)
    /\ failure' = IF readerOk THEN failure ELSE "metric reader"
    /\ UNCHANGED <<cfg, provider, initErr, exited>>
    /\ UNCHANGED <<globalVars, registryVars>>

\* The rollback after a failed metrics setup with initialization going on to
\* its assignments although New returned the error.
NewRollbackMetricsThenAssign ==
    /\ npc = "rollbackMetrics" /\ ~exited
    /\ trail' = trail \o <<"traceShutdown", "logShutdown">>
    /\ initErr' = "metrics"
    /\ npc' = "assign"
    /\ UNCHANGED <<cfg, provider, serving, failure, exited>>
    /\ UNCHANGED <<globalVars, registryVars>>

\* The rollback after a failed metrics setup in setup order.
NewRollbackMetricsForward ==
    /\ npc = "rollbackMetrics" /\ ~exited
    /\ trail' = trail \o <<"logShutdown", "traceShutdown">>
    /\ initErr' = "metrics"
    /\ npc' = "returned"
    /\ UNCHANGED <<cfg, provider, serving, failure, exited>>
    /\ UNCHANGED <<globalVars, registryVars>>

NewRollbackMetrics ==
    /\ npc = "rollbackMetrics" /\ ~exited
    /\ trail' = trail \o <<"traceShutdown", "logShutdown">>
    /\ initErr' = "metrics"
    /\ npc' = "returned"
    /\ UNCHANGED <<cfg, provider, serving, failure, exited>>
    /\ UNCHANGED <<globalVars, registryVars>>

NewReturn ==
    /\ npc = "provider" /\ ~exited
    /\ provider' = "sdk"
    /\ npc' = "assign"
    /\ UNCHANGED <<cfg, trail, initErr, serving, failure, exited>>
    /\ UNCHANGED <<globalVars, registryVars>>

\* initialization after New: the package-level Tracer and Meter are assigned.
InitAssign ==
    /\ npc = "assign" /\ ~exited
    /\ Tracer' = IF provider = "sdk" THEN "sdk" ELSE "global"
    /\ Meter' = inits + 1
    /\ inits' = inits + 1
    /\ npc' = IF cfg.MetricEnabled THEN "standard" ELSE "returned"
    /\ UNCHANGED <<cfg, trail, provider, initErr, serving, failure, exited>>
    /\ UNCHANGED registryVars

\* With cfg.Metric.Enabled: InitStandardMetrics, StartRuntimeMetrics and, with
\* EnableHostMetrics, StartHostMetrics; their errors are only logged.
InitStandard ==
    /\ npc = "standard" /\ ~exited
    /\ Invoke("InitStandardMetrics")
    /\ InitStandardMetrics
    /\ npc' = "runtime"
    /\ UNCHANGED <<cfg, provider, initErr, serving, failure, exited>>
    /\ UNCHANGED globalVars

\* StartRuntimeMetrics followed by StartHostMetrics whatever EnableHostMetrics is.
InitStartRuntimeThenHost ==
    /\ npc = "runtime" /\ ~exited
    /\ Invoke("StartRuntimeMetrics")
    /\ npc' = "host"
    /\ UNCHANGED <<cfg, provider, initErr, serving, failure, exited>>
    /\ UNCHANGED <<globalVars, registryVars>>

InitStartRuntime ==
    /\ npc = "runtime" /\ ~exited
    /\ Invoke("StartRuntimeMetrics")
    /\ npc' = IF cfg.EnableHostMetrics THEN "host" ELSE "returned"
    /\ UNCHANGED <<cfg, provider, initErr, serving, failure, exited>>
    /\ UNCHANGED <<globalVars, registryVars>>

InitStartHost ==
    /\ npc = "host" /\ ~exited
    /\ Invoke("StartHostMetrics")
    /\ npc' = "returned"
    /\ UNCHANGED <<cfg, provider, initErr, serving, failure, exited>>
    /\ UNCHANGED <<globalVars, registryVars>>

\* The metrics server goroutine: ListenAndServe fails and log.Fatal ends the
\* process.
PrometheusListenFails ==
    /\ serving /\ ~exited
    /\ failure' = "prometheus listen"
    /\ exited' = TRUE
    /\ UNCHANGED <<cfg, npc, trail, provider, initErr, serving>>
    /\ UNCHANGED <<globalVars, registryVars>>

\* -------------------------------------------------- the aggregate shutdown
Group == {"metrics", "tracing"}

\* The ShutdownFunc Init returned is called: the no-op of the disabled path
\* returns nil at once; otherwise the errgroup starts its two goroutines.
ShutdownCall ==
    /\ npc = "returned" /\ initErr = "nil" /\ ~exited
    /\ spc = "idle"
    /\ IF provider = "noop"
       THEN /\ spc' = "done"
            /\ UNCHANGED gpc
       ELSE /\ spc' = "wait"
            /\ gpc' = [g \in Group |-> "go"]
    /\ UNCHANGED <<gErr, err1, failed, shutdownErr>>
    /\ UNCHANGED <<trail, serving>>

\* g.Go: the goroutine of subsystem g returned the error e (empty for nil);
\* the group keeps the first error only.
GoReturns(g, e) ==
    /\ gpc' = [gpc EXCEPT ![g] = "done"]
    /\ failed' = failed \cup e
    /\ gErr' = IF gErr = {} THEN e ELSE gErr
    /\ trail' = Append(trail, IF g = "metrics" THEN "metricShutdown.done"
                                               ELSE "traceShutdown.done")

MetricShutdownStart ==
    /\ ~exited /\ gpc["metrics"] = "go"
    /\ Invoke("metricShutdown")
    /\ gpc' = [gpc EXCEPT !["metrics"] = "mp"]
    /\ UNCHANGED <<spc, gErr, err1, failed, shutdownErr, serving>>

\* The metrics shutdown closure: mp.Shutdown, then serverShutdown whatever
\* mp.Shutdown returned; the result is err1 if it is an error, else err2.
MetricShutdownProvider(fails) ==
    /\ ~exited /\ gpc["metrics"] = "mp"
    /\ fails => cfg.MetricEnabled
    /\ err1' = IF fails THEN {"metrics"} ELSE {}
    /\ gpc' = [gpc EXCEPT !["metrics"] = "server"]
    /\ UNCHANGED <<spc, gErr, failed, shutdownErr, trail, serving>>

MetricShutdownServer(fails) ==
    /\ ~exited /\ gpc["metrics"] = "server"
    /\ fails => serving
    /\ serving' = FALSE
    /\ GoReturns("metrics", IF err1 # {} THEN err1
                            ELSE IF fails THEN {"metrics"} ELSE {})
    /\ UNCHANGED <<spc, err1, shutdownErr>>

TraceShutdownStart ==
    /\ ~exited /\ gpc["tracing"] = "go"
    /\ Invoke("traceShutdown")
    /\ gpc' = [gpc EXCEPT !["tracing"] = "run"]
    /\ UNCHANGED <<spc, gErr, err1, failed, shutdownErr, serving>>

TraceShutdownReturns(fails) ==
    /\ ~exited /\ gpc["tracing"] = "run"
    /\ GoReturns("tracing", IF fails THEN {"tracing"} ELSE {})
    /\ UNCHANGED <<spc, err1, shutdownErr, serving>>

\* g.Wait returning as soon as one goroutine has returned.
ShutdownWaitForOne ==
    /\ ~exited /\ spc = "wait"
    /\ \E g \in Group : gpc[g] = "done"
    /\ shutdownErr' = gErr
    /\ spc' = "logging"
    /\ UNCHANGED <<gpc, gErr, err1, failed, trail, serving>>

\* g.Wait, with the shutdown returning its error without closing logging.
ShutdownWaitShortCircuit ==
    /\ ~exited /\ spc = "wait"
    /\ \A g \in Group : gpc[g] = "done"
    /\ shutdownErr' = gErr
    /\ spc' = IF gErr = {} THEN "logging" ELSE "done"
    /\ UNCHANGED <<gpc, gErr, err1, failed, trail, serving>>

\* g.Wait: both goroutines have returned; the result is the group's error.
ShutdownWait ==
    /\ ~exited /\ spc = "wait"
    /\ \A g \in Group : gpc[g] = "done"
    /\ shutdownErr' = gErr
    /\ spc' = "logging"
    /\ UNCHANGED <<gpc, gErr, err1, failed, trail, serving>>

\* logShutdown, last: its error is returned alone or added to the group's.
LogShutdown(fails) ==
    /\ ~exited /\ spc = "logging"
    /\ Invoke("logShutdown")
    /\ failed' = IF fails THEN failed \cup {"logging"} ELSE failed
    /\ shutdownErr' = IF fails THEN shutdownErr \cup {"logging"} ELSE shutdownErr
    /\ spc' = "done"
    /\ UNCHANGED <<gpc, gErr, err1, serving>>

ProvRest == <<runVars, regVars, recVars, opsVars, bagVars, httpVars, grpcVars, accVars, reinitVars, agentVars>>
ProvInitRest == <<ProvRest, sdVars, againVars>>
ProvShutRest == <<ProvRest, globalVars, registryVars, cfg, npc, provider, initErr, failure, exited,
                  againVars>>

NextProv ==
    \/ \E c \in Configs : InitCall(c) /\ UNCHANGED ProvInitRest
    \/ NewDisabled /\ UNCHANGED ProvInitRest
    \/ \E ok \in BOOLEAN : NewResource(ok) /\ UNCHANGED ProvInitRest
    \/ NewSetupLogging /\ UNCHANGED ProvInitRest
    \/ \E o \in {"ok", "err", "fatal"} : NewSetupTracing(o) /\ UNCHANGED ProvInitRest
    \/ NewRollbackTracing /\ UNCHANGED ProvInitRest
    \/ \E ok \in BOOLEAN : NewSetupMetrics(ok) /\ UNCHANGED ProvInitRest
    \/ NewRollbackMetrics /\ UNCHANGED ProvInitRest
    \/ NewReturn /\ UNCHANGED ProvInitRest
    \/ InitAssign /\ UNCHANGED ProvInitRest
    \/ InitStandard /\ UNCHANGED ProvInitRest
    \/ InitStartRuntime /\ UNCHANGED ProvInitRest
    \/ InitStartHost /\ UNCHANGED ProvInitRest
    \/ PrometheusListenFails /\ UNCHANGED ProvInitRest
    \/ ShutdownCall /\ UNCHANGED ProvShutRest
    \/ MetricShutdownStart /\ UNCHANGED ProvShutRest
    \/ \E f \in BOOLEAN : MetricShutdownProvider(f) /\ UNCHANGED ProvShutRest
    \/ \E f \in BOOLEAN : MetricShutdownServer(f) /\ UNCHANGED ProvShutRest
    \/ TraceShutdownStart /\ UNCHANGED ProvShutRest
    \/ \E f \in BOOLEAN : TraceShutdownReturns(f) /\ UNCHANGED ProvShutRest
    \/ ShutdownWait /\ UNCHANGED ProvShutRest
    \/ \E f \in BOOLEAN : LogShutdown(f) /\ UNCHANGED ProvShutRest

SpecProv == Init /\ [][NextProv]_vars

\* ------------------------------------- properties of Init and the shutdown
IsSetup(f) == f \in {"setupLogging", "setupTracing", "setupMetrics"}
SetupOrder == <<"setupLogging", "setupTracing", "setupMetrics">>

\* The positions of f in the trail.
Calls(f) == {i \in DOMAIN trail : trail[i] = f}

C14_LoggingShutsDownLast ==
    spc # "idle" =>
        \A i \in Calls("logShutdown") :
            /\ \E j \in Calls("metricShutdown.done") : j < i
            /\ \E k \in Calls("traceShutdown.done") : k < i

C14_Witness ==
    /\ spc = "done"
    /\ provider = "sdk"
    /\ trail[Len(trail)] = "logShutdown"
    /\ "metrics" \in failed
    /\ \E i \in Calls("traceShutdown"), j \in Calls("metricShutdown.done"),
          k \in Calls("metricShutdown"), l \in Calls("traceShutdown.done") :
           i < j /\ k < l

\* C15: a finished aggregate shutdown has invoked the metrics, the tracing and
\* the logging shutdown, each once, whichever of them failed.
C15_ShutdownNeverShortCircuits ==
    (spc = "done" /\ provider = "sdk") =>
        \A f \in {"metricShutdown", "traceShutdown", "logShutdown"} :
            Cardinality(Calls(f)) = 1

C15_Witness ==
    /\ spc = "done"
    /\ provider = "sdk"
    /\ failed = {"metrics", "tracing", "logging"}
    /\ \A f \in {"metricShutdown", "traceShutdown", "logShutdown"} :
           Cardinality(Calls(f)) = 1

\* C16: the error the aggregate shutdown returns is nil exactly when no
\* subsystem shutdown failed, and otherwise carries the error of each that did.
C16_CombinedErrorCarriesAll ==
    spc = "done" => shutdownErr = failed

\* C17: with cfg.Enabled false Init calls no setup function, registers no
\* standard metrics, starts no runtime or host metrics collection and installs
\* the no-op tracer and meter.
C17_DisabledInitIsSideEffectFree ==
    (npc = "returned" /\ ~cfg.Enabled) =>
        /\ trail = <<>>
        /\ registry = 0 /\ ~registryOnce
        /\ provider = "noop" /\ Tracer = "global"

\* C18: the process is never terminated by initialization, and an Init that has
\* met a fatal configuration error returns an error.
C18_FatalErrorsAreReturned ==
    /\ ~exited
    /\ (npc = "returned" /\ failure # "none") => initErr # "nil"

\* ------------------------------------------------------ State.SetBaggage
\* Strings are sequences of characters. The keys and values SetBaggage is
\* called with: tenant_id, user_id, a key with a space and the empty key;
\* 1001, a%20b, a value with a space and a value with a broken escape.
BagKeys == {<<"t", "i", "d">>, <<"u", "i", "d">>, <<"t", " ", "d">>, <<>>}
BagValues == {<<"1", "0", "0", "1">>, <<"a", "%", "2", "0", "b">>,
              <<"a", " ", "b">>, <<"a", "%", "z", "z">>}

TokenChars == {"t", "i", "d", "u", "_"}
OctetChars == {"0", "1", "2", "a", "b", "z"}
HexDigits == {"0", "1", "2", "a", "b"}

HexVal(c) ==
    CASE c = "0" -> 0 [] c = "1" -> 1 [] c = "2" -> 2 [] c = "a" -> 10 [] OTHER -> 11

\* The character with the given code, of those that occur.
CharOf(n) == IF n = 32 THEN " " ELSE IF n = 37 THEN "%" ELSE "?"

\* A baggage key is a non-empty token.
ValidKey(k) == Len(k) > 0 /\ \A i \in DOMAIN k : k[i] \in TokenChars

\* A baggage value consists of baggage octets and complete percent escapes.
ValidValue(v) ==
    \A i \in DOMAIN v :
        \/ v[i] \in OctetChars
        \/ /\ v[i] = "%"
           /\ i + 2 <= Len(v)
           /\ v[i + 1] \in HexDigits /\ v[i + 2] \in HexDigits

\* url.PathUnescape: every percent escape becomes the character it encodes.
RECURSIVE PathUnescape(_)
PathUnescape(v) ==
    IF v = <<>> THEN <<>>
    ELSE IF v[1] = "%" /\ Len(v) >= 3
         THEN <<CharOf(16 * HexVal(v[2]) + HexVal(v[3]))>> \o PathUnescape(SubSeq(v, 4, Len(v)))
         ELSE <<v[1]>> \o PathUnescape(Tail(v))

\* baggage.NewMember: an error for an invalid key or value, else the member
\* whose value is the percent-decoded value.
NewMember(key, value) ==
    IF ValidKey(key) /\ ValidValue(value)
    THEN [ok |-> TRUE, key |-> key, value |-> PathUnescape(value)]
    ELSE [ok |-> FALSE, key |-> <<>>, value |-> <<>>]

\* Baggage.SetMember: a new baggage, the copy of b with the member set.
SetMember(b, m) == [k \in DOMAIN b \cup {m.key} |-> IF k = m.key THEN m.value ELSE b[k]]

\* Baggage lookup: Member(key).Value(), empty when there is no such member.
BaggageValue(c, key) == IF key \in DOMAIN ctxs[c] THEN ctxs[c][key] ELSE <<>>

\* SetBaggage writing the member into the baggage of ctx itself.
SetBaggageInPlace(c, key, value) ==
    LET m == NewMember(key, value) IN
    /\ ctxs' = IF m.ok THEN [ctxs EXCEPT ![c] = SetMember(ctxs[c], m)] ELSE ctxs
    /\ bagCall' = [ctx |-> c, key |-> key, value |-> value, ret |-> c]

\* SetBaggage: a failed NewMember returns ctx itself; otherwise the result is
\* a new context holding the new baggage, and ctx is as it was.
SetBaggage(c, key, value) ==
    LET m == NewMember(key, value) IN
    IF m.ok
    THEN /\ Len(ctxs) < MaxCtx
         /\ ctxs' = Append(ctxs, SetMember(ctxs[c], m))
         /\ bagCall' = [ctx |-> c, key |-> key, value |-> value, ret |-> Len(ctxs) + 1]
    ELSE /\ ctxs' = ctxs
         /\ bagCall' = [ctx |-> c, key |-> key, value |-> value, ret |-> c]

\* What SetBaggage leaves alone besides the registry and the Run state.
BagRest == <<opsVars, provVars, sdVars, httpVars, grpcVars, againVars, accVars, reinitVars, agentVars>>

NextBag ==
    \E c \in DOMAIN ctxs, k \in BagKeys, v \in BagValues :
        /\ SetBaggage(c, k, v)
        /\ UNCHANGED <<globalVars, registryVars, runVars, regVars, recVars, BagRest>>

SpecBag == Init /\ [][NextBag]_vars

\* The result of the last call has key set to v and every other member as in
\* the context passed.
Returned(v) ==
    /\ bagCall.ret # bagCall.ctx
    /\ BaggageValue(bagCall.ret, bagCall.key) = v
    /\ DOMAIN ctxs[bagCall.ret] = DOMAIN ctxs[bagCall.ctx] \cup {bagCall.key}
    /\ \A k \in DOMAIN ctxs[bagCall.ctx] \ {bagCall.key} :
           ctxs[bagCall.ret][k] = ctxs[bagCall.ctx][k]

\* No step changes the baggage of a context that exists.
ContextsImmutable == \A c \in DOMAIN ctxs : c \in DOMAIN ctxs' /\ ctxs'[c] = ctxs[c]

\* C19 as stated: with a valid key and value the lookup of key in the returned
\* context yields value; otherwise the context passed is returned.
C19_Original ==
    bagCall.ret # 0 =>
        IF ValidKey(bagCall.key) /\ ValidValue(bagCall.value)
        THEN Returned(bagCall.value)
        ELSE bagCall.ret = bagCall.ctx

\* C19: SetBaggage never changes a context that exists; with a valid key and
\* value it returns a new context where the lookup of key yields the
\* percent-decoded value and every other member is as in ctx; with an invalid
\* key or value it returns ctx itself.
C19_SetBaggageReturnsNewContext ==
    /\ [][ContextsImmutable]_vars
    /\ [](bagCall.ret # 0 =>
            IF ValidKey(bagCall.key) /\ ValidValue(bagCall.value)
            THEN Returned(PathUnescape(bagCall.value))
            ELSE bagCall.ret = bagCall.ctx)

C19_Witness ==
    /\ bagCall.ret # 0
    /\ bagCall.ret # bagCall.ctx
    /\ BaggageValue(bagCall.ctx, bagCall.key) = <<>>
    /\ BaggageValue(bagCall.ret, bagCall.key) = <<"a", " ", "b">>
    /\ Cardinality(DOMAIN ctxs[bagCall.ret]) = 2

\* --------------------------------------------------- the HTTP middleware
ActiveRequestsName == "http.server.active_requests"

HttpEvent(q, ev, v) == [req |-> q, ev |-> ev, v |-> v]

\* The inner handler is entered: active_requests +1, and the -1 is deferred.
HandlerEnter(q) ==
    /\ hpc[q] = "idle"
    /\ AddToInt64UpDownCounter(ActiveRequestsName, 1)
    /\ hlog' = [hlog EXCEPT ![q] = Append(@, HttpEvent(q, "active", 1))]
    /\ hreg' = [hreg EXCEPT ![q] = Registered(ActiveRequestsName, "updown")]
    /\ hpc' = [hpc EXCEPT ![q] = "serve"]
    /\ UNCHANGED <<hpanic, hcode, hresp, hcalls, globalVars, registry, maps, registryOnce>>

\* The status httpsnoop captures and the client receives: the first header
\* written. A handler that writes none gets net/http's 200 when it returns and
\* the recover's 500 when it panics; the recover's WriteHeader after a header
\* the handler wrote is superfluous and changes nothing.
FirstStatus(wrote, panics) ==
    IF wrote # NothingWritten THEN wrote
    ELSE IF panics THEN 500 ELSE 200

\* next.ServeHTTP runs under httpsnoop.CaptureMetrics: it writes a status or
\* none, then returns, or panics and the deferred recover calls http.Error
\* with 500.
HandlerServe(q, wrote, panics) ==
    /\ hpc[q] = "serve"
    /\ hlog' = [hlog EXCEPT ![q] = Append(@, HttpEvent(q, "next.ServeHTTP", 0))]
    /\ hpanic' = [hpanic EXCEPT ![q] = panics]
    /\ hcode' = [hcode EXCEPT ![q] = FirstStatus(wrote, panics)]
    /\ hresp' = [hresp EXCEPT ![q] = FirstStatus(wrote, panics)]
    /\ hpc' = [hpc EXCEPT ![q] = "count"]
    /\ UNCHANGED <<hreg, hcalls, globalVars, registryVars>>

ReqMethod(q) == IF q = 1 THEN "GET" ELSE "POST"

ReqRoute(q) == IF q = 1 THEN "/test-route" ELSE "/panic-route"

\* commonAttrs: the method and path of the request and the captured status.
CommonAttrs(q) ==
    [method |-> ReqMethod(q), route |-> ReqRoute(q), status_code |-> hcode[q]]

MetricCall(fn, name, attrs) == [fn |-> fn, name |-> name, value |-> 1, attrs |-> attrs]

\* The name the middleware passes to AddToIntCounter.
RequestCountName == "http.server.request.count"

RequestDurationName == "http.server.request.duration"

\* The request counter, under the name the handler uses.
HandlerCount(q) ==
    /\ hpc[q] = "count"
    /\ AddToIntCounter(RequestCountName, 1)
    /\ hcalls' = [hcalls EXCEPT ![q] =
                     Append(@, MetricCall("AddToIntCounter", RequestCountName, CommonAttrs(q)))]
    /\ hpc' = [hpc EXCEPT ![q] = "duration"]
    /\ UNCHANGED <<hlog, hreg, hpanic, hcode, hresp, globalVars, registry, maps, registryOnce>>

HandlerDuration(q) ==
    /\ hpc[q] = "duration"
    /\ RecordInFloat64Histogram(RequestDurationName, 1)
    /\ hcalls' = [hcalls EXCEPT ![q] =
                     Append(@, MetricCall("RecordInFloat64Histogram",
                                          RequestDurationName, CommonAttrs(q)))]
    /\ hpc' = [hpc EXCEPT ![q] = "return"]
    /\ UNCHANGED <<hlog, hreg, hpanic, hcode, hresp, globalVars, registry, maps, registryOnce>>

\* The inner handler returning with the -1 made only if nothing panicked.
HandlerReturnUnlessPanicked(q) ==
    /\ hpc[q] = "return"
    /\ IF hpanic[q]
       THEN UNCHANGED <<instTotal, localValues, cells, hlog>>
       ELSE /\ AddToInt64UpDownCounter(ActiveRequestsName, -1)
            /\ hlog' = [hlog EXCEPT ![q] = Append(@, HttpEvent(q, "active", -1))]
    /\ hpc' = [hpc EXCEPT ![q] = "done"]
    /\ UNCHANGED <<hreg, hpanic, hcode, hresp, hcalls, globalVars, registry, maps, registryOnce>>

\* The inner handler returns: the deferred active_requests -1 runs.
HandlerReturn(q) ==
    /\ hpc[q] = "return"
    /\ AddToInt64UpDownCounter(ActiveRequestsName, -1)
    /\ hlog' = [hlog EXCEPT ![q] = Append(@, HttpEvent(q, "active", -1))]
    /\ hpc' = [hpc EXCEPT ![q] = "done"]
    /\ UNCHANGED <<hreg, hpanic, hcode, hresp, hcalls, globalVars, registry, maps, registryOnce>>

HttpRest == <<runVars, regVars, recVars, opsVars, provVars, sdVars, bagVars, grpcVars, againVars, accVars, reinitVars, agentVars>>

NextHttp ==
    \/ /\ \E ce, me \in BOOLEAN : Initialize(ce, me, FALSE)
       /\ UNCHANGED <<regVars, recVars, extVars>>
    \/ \E q \in Requests : HandlerEnter(q) /\ UNCHANGED HttpRest
    \/ \E q \in Requests, w \in HandlerStatuses \cup {NothingWritten}, p \in BOOLEAN :
           HandlerServe(q, w, p) /\ UNCHANGED HttpRest
    \/ \E q \in Requests : HandlerCount(q) /\ UNCHANGED HttpRest
    \/ \E q \in Requests : HandlerDuration(q) /\ UNCHANGED HttpRest
    \/ \E q \in Requests : HandlerReturn(q) /\ UNCHANGED HttpRest

SpecHttp == Init /\ [][NextHttp]_vars

\* The positions in the log of request q of its events ev.
HttpAt(q, ev) == {i \in DOMAIN hlog[q] : hlog[q][i].ev = ev}

RECURSIVE SumLog(_)
SumLog(l) == IF l = <<>> THEN 0 ELSE Head(l).v + SumLog(Tail(l))

\* The values of the active_requests calls of requests 1..n, summed.
RECURSIVE SumRequests(_)
SumRequests(n) == IF n = 0 THEN 0 ELSE SumLog(hlog[n]) + SumRequests(n - 1)

InFlight == Cardinality({q \in Requests : hpc[q] \notin {"idle", "done"}})

\* C20: each request served makes two active_requests calls, +1 before the
\* wrapped handler runs and -1 after it, panic or not; the values of the calls
\* made sum to the number of requests in flight, 0 when all are done, and so
\* does the running total when the instrument was registered at every entry.
C20_ActiveRequestsBalanced ==
    /\ \A q \in Requests :
           hpc[q] = "done" =>
               /\ Cardinality(HttpAt(q, "active")) = 2
               /\ \E i, k \in HttpAt(q, "active"), j \in HttpAt(q, "next.ServeHTTP") :
                      i < j /\ j < k /\ hlog[q][i].v = 1 /\ hlog[q][k].v = -1
    /\ SumRequests(NumRequests) = InFlight
    /\ (\A q \in Requests : hpc[q] # "idle" => hreg[q]) =>
           GetMetricValue(ActiveRequestsName) = InFlight

C20_Witness ==
    /\ \E q, r \in Requests :
           /\ hpc[q] = "done" /\ hpanic[q]
           /\ hpc[r] = "return" /\ ~hpanic[r]
    /\ \A q \in Requests : hreg[q]
    /\ InFlight = 1
    /\ GetMetricValue(ActiveRequestsName) = 1

\* The request counter that InitStandardMetrics registers.
RequestTotalName == "http.server.request.total"

\* The calls of fn on name that request q made.
CallsOf(q, fn, name) ==
    {i \in DOMAIN hcalls[q] : hcalls[q][i].fn = fn /\ hcalls[q][i].name = name}

\* Request q has passed the recording of its request metrics.
Recorded(q) == hpc[q] \in {"return", "done"}

\* Request q made exactly one call of fn on name, of value 1, tagged with its
\* method, its route and the status captured for it.
RecordedOnce(q, fn, name) ==
    /\ Cardinality(CallsOf(q, fn, name)) = 1
    /\ \A i \in CallsOf(q, fn, name) :
           /\ hcalls[q][i].value = 1
           /\ hcalls[q][i].attrs = CommonAttrs(q)

\* C21: every request served has exactly one increment of 1 on
\* http.server.request.total and exactly one sample on
\* http.server.request.duration, both tagged with its method, route and status;
\* with the standard metrics registered the counter's running total is the
\* number of requests recorded.
C21_RequestTotalRecordedOnce ==
    /\ \A q \in Requests :
           Recorded(q) =>
               /\ RecordedOnce(q, "AddToIntCounter", RequestTotalName)
               /\ RecordedOnce(q, "RecordInFloat64Histogram", RequestDurationName)
    /\ (\A q \in Requests : hpc[q] # "idle" => hreg[q]) =>
           GetMetricValue(RequestTotalName) = Cardinality({q \in Requests : Recorded(q)})

\* C22: a request whose wrapped handler panicked is answered with 500 and has
\* the request counter and the duration histogram recorded exactly once each,
\* tagged with status_code 500; the panic is recovered, so the request goes on
\* to record its metrics.
C22_PanicAnsweredAndRecorded ==
    \A q \in Requests :
        /\ hpanic[q] => hpc[q] \in {"count", "duration", "return", "done"} /\ hresp[q] = 500
        /\ hpanic[q] /\ Recorded(q) =>
               /\ RecordedOnce(q, "AddToIntCounter", RequestTotalName)
               /\ RecordedOnce(q, "RecordInFloat64Histogram", RequestDurationName)
               /\ \A i \in DOMAIN hcalls[q] : hcalls[q][i].attrs.status_code = 500

\* ------------------------------------------------- the gRPC interceptors
\* status.Errorf(code, ...)
StatusErr(code) == [type |-> "status", v |-> code]

\* status.Code(err): OK for nil, Unknown for an error that is no status.
StatusCode(e) ==
    IF e = NilErr THEN "OK"
    ELSE IF e.type = "status" THEN e.v ELSE "Unknown"

\* What a gRPC handler returns.
HandlerResps == {"reply", NilResp}
HandlerErrs == {NilErr, [type |-> "biz", v |-> "e1"], StatusErr("Canceled")}

RpcMethod(c) == IF rpcKind[c] = "unary" THEN "/test/Method" ELSE "/test/StreamMethod"

\* The name the interceptors pass to AddToIntCounter.
RpcPanicsName == "rpc.server.panics"

\* The interceptor is entered: the logger is injected and the recover deferred.
RpcStart(c, kind) ==
    /\ rpcPc[c] = "idle"
    /\ rpcKind' = [rpcKind EXCEPT ![c] = kind]
    /\ rpcPc' = [rpcPc EXCEPT ![c] = "handler"]
    /\ UNCHANGED <<rpcResp, rpcErr, rpcHandled, rpcCalls, rpcReg, globalVars, registryVars>>

\* The handler returns: resp, err = handler(ctx, req) of the unary interceptor,
\* return handler(srv, wrappedStream) of the stream interceptor.
RpcHandlerReturns(c, resp, e) ==
    /\ rpcPc[c] = "handler"
    /\ rpcKind[c] = "stream" => resp = NilResp
    /\ rpcHandled' = [rpcHandled EXCEPT ![c] = [panic |-> "none", resp |-> resp, err |-> e]]
    /\ rpcResp' = [rpcResp EXCEPT ![c] = resp]
    /\ rpcErr' = [rpcErr EXCEPT ![c] = e]
    /\ rpcPc' = [rpcPc EXCEPT ![c] = IF rpcKind[c] = "unary" THEN "log" ELSE "returned"]
    /\ UNCHANGED <<rpcKind, rpcCalls, rpcReg, globalVars, registryVars>>

\* The handler panics with r: the named results keep their zero values and
\* the deferred function runs.
RpcHandlerPanics(c, r) ==
    /\ rpcPc[c] = "handler"
    /\ rpcHandled' = [rpcHandled EXCEPT ![c] = [panic |-> r, resp |-> NilResp, err |-> NilErr]]
    /\ rpcPc' = [rpcPc EXCEPT ![c] = "recover"]
    /\ UNCHANGED <<rpcKind, rpcResp, rpcErr, rpcCalls, rpcReg, globalVars, registryVars>>

\* The unary interceptor writes its access or error log and returns resp, err.
RpcLog(c) ==
    /\ rpcPc[c] = "log"
    /\ rpcPc' = [rpcPc EXCEPT ![c] = "returned"]
    /\ UNCHANGED <<rpcKind, rpcResp, rpcErr, rpcHandled, rpcCalls, rpcReg, globalVars, registryVars>>

\* The deferred recover with a result that is not named: the assignment to
\* err is lost and the interceptor returns what the results held.
RpcRecoverUnnamedResult(c) ==
    /\ rpcPc[c] = "recover"
    /\ AddToIntCounter(RpcPanicsName, 1)
    /\ rpcCalls' = [rpcCalls EXCEPT ![c] =
                       Append(@, MetricCall("AddToIntCounter", RpcPanicsName,
                                            [method |-> RpcMethod(c)]))]
    /\ rpcReg' = [rpcReg EXCEPT ![c] = Registered("rpc.server.panic.total", "counter")]
    /\ rpcPc' = [rpcPc EXCEPT ![c] = "returned"]
    /\ UNCHANGED <<rpcKind, rpcResp, rpcErr, rpcHandled, globalVars, registry, maps, registryOnce>>

\* The deferred recover: the panic is logged and recorded on the span, the
\* panic counter is incremented and err is set to a status of code Internal.
RpcRecover(c) ==
    /\ rpcPc[c] = "recover"
    /\ AddToIntCounter(RpcPanicsName, 1)
    /\ rpcCalls' = [rpcCalls EXCEPT ![c] =
                       Append(@, MetricCall("AddToIntCounter", RpcPanicsName,
                                            [method |-> RpcMethod(c)]))]
    /\ rpcReg' = [rpcReg EXCEPT ![c] = Registered("rpc.server.panic.total", "counter")]
    /\ rpcErr' = [rpcErr EXCEPT ![c] = StatusErr("Internal")]
    /\ rpcPc' = [rpcPc EXCEPT ![c] = "returned"]
    /\ UNCHANGED <<rpcKind, rpcResp, rpcHandled, globalVars, registry, maps, registryOnce>>

GrpcRest == <<runVars, regVars, recVars, opsVars, provVars, sdVars, bagVars, httpVars, againVars, accVars, reinitVars, agentVars>>

NextGrpc ==
    \/ /\ \E ce, me \in BOOLEAN : Initialize(ce, me, FALSE)
       /\ UNCHANGED <<regVars, recVars, extVars>>
    \/ \E c \in RpcCalls, k \in {"unary", "stream"} : RpcStart(c, k) /\ UNCHANGED GrpcRest
    \/ \E c \in RpcCalls, resp \in HandlerResps, e \in HandlerErrs :
           RpcHandlerReturns(c, resp, e) /\ UNCHANGED GrpcRest
    \/ \E c \in RpcCalls, r \in PanicValues : RpcHandlerPanics(c, r) /\ UNCHANGED GrpcRest
    \/ \E c \in RpcCalls : RpcLog(c) /\ UNCHANGED GrpcRest
    \/ \E c \in RpcCalls : RpcRecover(c) /\ UNCHANGED GrpcRest

SpecGrpc == Init /\ [][NextGrpc]_vars

RpcPanicked(c) == rpcHandled[c].panic # "none"

\* C23: a gRPC call whose handler panicked returns from the interceptor, with
\* an error of status code Internal and, for a unary call, a nil response; a
\* call whose handler returned gives back the handler's response and error.
C23_PanicBecomesInternal ==
    \A c \in RpcCalls :
        /\ RpcPanicked(c) => rpcPc[c] \in {"recover", "returned"}
        /\ rpcPc[c] = "returned" =>
               IF RpcPanicked(c)
               THEN /\ StatusCode(rpcErr[c]) = "Internal"
                    /\ rpcKind[c] = "unary" => rpcResp[c] = NilResp
               ELSE /\ rpcResp[c] = rpcHandled[c].resp
                    /\ rpcErr[c] = rpcHandled[c].err

C23_Witness ==
    \E c, d \in RpcCalls :
        /\ rpcPc[c] = "returned" /\ rpcKind[c] = "unary" /\ RpcPanicked(c)
        /\ StatusCode(rpcErr[c]) = "Internal" /\ rpcResp[c] = NilResp
        /\ rpcPc[d] = "returned" /\ rpcKind[d] = "stream" /\ ~RpcPanicked(d)
        /\ rpcErr[d] = StatusErr("Canceled")

\* The gRPC panic counter that InitStandardMetrics registers.
RpcPanicTotalName == "rpc.server.panic.total"

\* The gRPC calls whose panic has been recovered.
Recovered == {c \in RpcCalls : RpcPanicked(c) /\ rpcPc[c] = "returned"}

\* C24: each recovered gRPC panic makes one increment of 1 on
\* rpc.server.panic.total tagged with the method, and with that counter
\* registered at every recover its running total is the number of recovered
\* panics.
C24_PanicTotalCountsRecovered ==
    /\ \A c \in Recovered :
           /\ Len(rpcCalls[c]) = 1
           /\ rpcCalls[c][1] = MetricCall("AddToIntCounter", RpcPanicTotalName,
                                          [method |-> RpcMethod(c)])
    /\ (\A c \in Recovered : rpcReg[c]) =>
           GetMetricValue(RpcPanicTotalName) = Cardinality(Recovered)

\* ----------------------------------------------- more properties of Init
\* Every standard metric is registered with its kind.
StandardRegistered ==
    \A i \in DOMAIN StandardMetrics :
        Registered(StandardMetrics[i][1], StandardMetrics[i][2])

\* The number of times f was invoked.
Times(f) == Cardinality(Calls(f))

ShutdownAgain ==
    /\ npc = "returned" /\ initErr = "nil" /\ ~exited
    /\ spc = "done"
    /\ shutdowns < MaxAgain
    /\ shutdowns' = shutdowns + 1
    /\ firstErr' = IF shutdowns = 0 THEN shutdownErr ELSE firstErr
    /\ IF provider = "noop"
       THEN /\ spc' = "done"
            /\ UNCHANGED gpc
       ELSE /\ spc' = "wait"
            /\ gpc' = [g \in Group |-> "go"]
    /\ gErr' = {}
    /\ err1' = {}
    /\ failed' = {}
    /\ shutdownErr' = {}
    /\ UNCHANGED <<trail, serving>>

AgainRest == <<ProvRest, globalVars, registryVars, cfg, npc, provider, initErr, failure, exited>>

NextAgain ==
    \/ NextProv
    \/ ShutdownAgain /\ UNCHANGED AgainRest

SpecAgain == Init /\ [][NextAgain]_vars

\* C26: a call of the aggregate shutdown after its first has completed invokes
\* no subsystem shutdown a second time, and returns nil when the first call
\* returned nil.
C26_ShutdownIsIdempotent ==
    /\ \A f \in {"metricShutdown", "traceShutdown", "logShutdown"} : Times(f) <= 1
    /\ (shutdowns > 0 /\ spc = "done" /\ firstErr = {}) => shutdownErr = {}

\* ------------------------------------------ the accumulators, call by call
\* The sum of the values added to name by calls that found their instrument.
Expected(name) == IF name \in DOMAIN expected THEN expected[name] ELSE 0

\* A call adding value to name, of the kind the function called wants: its
\* value counts when the lookup finds an instrument of that kind.
Count(name, kind, value) ==
    expected' = IF Registered(name, kind)
                THEN (name :> (Expected(name) + value)) @@ expected
                ELSE expected

AccRest == <<provVars, sdVars, bagVars, httpVars, grpcVars, againVars, reinitVars, agentVars>>

AccInit ==
    /\ \E ce, me, f \in BOOLEAN : Initialize(ce, me, f)
    /\ UNCHANGED <<regVars, recVars, extVars>>

AccRegister ==
    \E n \in UserNames, k \in AllKinds, ok \in BOOLEAN :
        /\ ApiCall("Register", n, k, ok)
        /\ Register(n, k, ok)
        /\ UNCHANGED <<globalVars, runVars, recVars, expected>>
        /\ UNCHANGED <<registryMu, ipc, stdIdx, rpc, rcall, completed, AccRest>>

AccAddToIntCounter ==
    \E n \in ApiNames, v \in {1, 2} :
        /\ ApiCall("AddToIntCounter", n, "counter", TRUE)
        /\ AddToIntCounter(n, v)
        /\ Count(n, "counter", v)
        /\ UNCHANGED <<globalVars, registry, maps, registryOnce, runVars, regVars, recVars,
                       AccRest>>

AccAddToInt64UpDownCounter ==
    \E n \in ApiNames, v \in {1, -1} :
        /\ ApiCall("AddToInt64UpDownCounter", n, "updown", TRUE)
        /\ AddToInt64UpDownCounter(n, v)
        /\ Count(n, "updown", v)
        /\ UNCHANGED <<globalVars, registry, maps, registryOnce, runVars, regVars, recVars,
                       AccRest>>

AccRecordInFloat64Histogram ==
    \E n \in ApiNames :
        /\ ApiCall("RecordInFloat64Histogram", n, "histogram", TRUE)
        /\ RecordInFloat64Histogram(n, 1)
        /\ UNCHANGED <<globalVars, registry, maps, registryOnce, runVars, regVars, recVars,
                       expected, AccRest>>

NextAcc ==
    \/ AccInit
    \/ AccRegister
    \/ AccAddToIntCounter
    \/ AccAddToInt64UpDownCounter
    \/ AccRecordInFloat64Histogram

SpecAcc == Init /\ [][NextAcc]_vars

\* C27: GetMetricValue(name) is the sum of the values of the AddToIntCounter
\* and AddToInt64UpDownCounter calls on name that found an instrument of the
\* matching kind: 0 for a name never recorded with success, left alone by
\* histogram recordings, dropped recordings and registrations.
C27_ValueIsSumOfAdds ==
    /\ \A n \in ApiNames : GetMetricValue(n) = Expected(n)
    /\ DOMAIN localValues = DOMAIN expected

\* A name recorded as a counter, re-registered as an up-down counter and
\* recorded again: one total.
C27_Witness ==
    /\ Registered(ErrorCounterName, "updown")
    /\ ops = MaxOps
    /\ lastCall.op = "AddToInt64UpDownCounter" /\ lastCall.name = ErrorCounterName
    /\ GetMetricValue(ErrorCounterName) = 3
    /\ Expected(ErrorCounterName) = 3

\* ------------------------------------------------------ Init called again
\* Init(cfg) is called after an earlier Init has returned and no shutdown is
\* running: New starts over and will return a new shutdown function.
InitAgain(c) ==
    /\ npc = "returned" /\ ~exited
    /\ spc \in {"idle", "done"}
    /\ reinits < MaxReinits
    /\ reinits' = reinits + 1
    /\ cfg' = c
    /\ npc' = "new"
    /\ provider' = "none"
    /\ initErr' = "nil"
    /\ failure' = "none"
    /\ spc' = "idle"
    /\ gpc' = [g \in Group |-> "idle"]
    /\ gErr' = {}
    /\ err1' = {}
    /\ failed' = {}
    /\ shutdownErr' = {}
    /\ UNCHANGED <<trail, serving, exited>>

ReinitRest == <<runVars, regVars, recVars, opsVars, bagVars, httpVars, grpcVars, accVars,
                againVars, agentVars, globalVars, registryVars>>

NextReinit ==
    \/ NextProv
    \/ \E c \in Configs : InitAgain(c) /\ UNCHANGED ReinitRest

SpecReinit == Init /\ [][NextReinit]_vars

\* C28: once InitStandardMetrics has registered, no step of a later Init or of
\* a shutdown registers again or changes the registry; the standard names keep
\* the instruments registered then, also after a later Init has installed a
\* new Meter.
C28_StandardMetricsRegisteredOnce ==
    /\ [][registryOnce => (registryOnce' /\ UNCHANGED <<registry, maps>>)]_vars
    /\ [](registryOnce =>
             /\ registry # 0
             /\ \A i \in DOMAIN StandardMetrics :
                    Lookup(getRegistryMap, StandardMetrics[i][1]) =
                        [ok |-> TRUE, inst |-> StdInst(i)])
    /\ [](Times("InitStandardMetrics") > 0 <=> registryOnce)

\* A second Init with metrics enabled has run InitStandardMetrics again and
\* installed a new Meter: the registry is the map the first one stored.
C28_Witness ==
    /\ reinits = 1 /\ npc = "returned" /\ initErr = "nil"
    /\ Meter = 2
    /\ Times("InitStandardMetrics") = 2
    /\ registry = 1
    /\ StandardRegistered

\* A step that assigns the package-level Tracer or Meter, changes the registry
\* or starts the standard, runtime or host metrics.
ChangesProcessState ==
    \/ <<Tracer, Meter, registryVars>>' # <<Tracer, Meter, registryVars>>
    \/ /\ Len(trail') > Len(trail)
       /\ trail'[Len(trail')] \in
              {"InitStandardMetrics", "StartRuntimeMetrics", "StartHostMetrics"}

ChanCap == BatchSize * 2

\* flushBatch: the batch is written out and emptied.
FlushBatch ==
    /\ flushed' = flushed + batch
    /\ batch' = 0

\* ParseLogFile: entriesChan <- entry. The send waits while the buffer is
\* full and panics once the channel is closed, which ends the process.
ProducerSend(p) ==
    /\ ~crashed /\ mpc # "exit"
    /\ left[p] > 0
    /\ IF chanClosed
       THEN /\ crashed' = TRUE
            /\ UNCHANGED <<left, chanLen, sent>>
       ELSE /\ chanLen < ChanCap
            /\ chanLen' = chanLen + 1
            /\ sent' = sent + 1
            /\ left' = [left EXCEPT ![p] = @ - 1]
            /\ UNCHANGED crashed
    /\ UNCHANGED <<mpc, chanClosed, ctxDone, cpc, batch, flushed>>

\* main's select: doneProducers is closed when every producer has returned.
MainProducersDone ==
    /\ ~crashed /\ mpc = "select"
    /\ \A p \in Producers : left[p] = 0
    /\ mpc' = "close"
    /\ UNCHANGED <<left, chanLen, chanClosed, ctxDone, cpc, batch, flushed, sent, crashed>>

\* main's select: the shutdown signal arrives and cancel() is called.
MainSignal ==
    /\ ~crashed /\ mpc = "select"
    /\ ctxDone' = TRUE
    /\ mpc' = "close"
    /\ UNCHANGED <<left, chanLen, chanClosed, cpc, batch, flushed, sent, crashed>>

\* close(entriesChan)
MainClose ==
    /\ ~crashed /\ mpc = "close"
    /\ chanClosed' = TRUE
    /\ mpc' = "wait"
    /\ UNCHANGED <<left, chanLen, ctxDone, cpc, batch, flushed, sent, crashed>>

\* wgConsumer.Wait() returns and main exits.
MainExit ==
    /\ ~crashed /\ mpc = "wait"
    /\ cpc = "returned"
    /\ mpc' = "exit"
    /\ UNCHANGED <<left, chanLen, chanClosed, ctxDone, cpc, batch, flushed, sent, crashed>>

\* runConsumer, case entry, ok := <-ch with ok: the entry joins the batch,
\* which is flushed when it has BatchSize entries.
ConsumerReceive ==
    /\ ~crashed /\ cpc = "loop"
    /\ chanLen > 0
    /\ chanLen' = chanLen - 1
    /\ IF batch + 1 >= BatchSize
       THEN /\ flushed' = flushed + batch + 1
            /\ batch' = 0
       ELSE /\ batch' = batch + 1
            /\ UNCHANGED flushed
    /\ UNCHANGED <<mpc, left, chanClosed, ctxDone, cpc, sent, crashed>>

\* runConsumer, case <-ch with the channel closed and empty: flush and return.
ConsumerClosed ==
    /\ ~crashed /\ cpc = "loop"
    /\ chanClosed /\ chanLen = 0
    /\ FlushBatch
    /\ cpc' = "returned"
    /\ UNCHANGED <<mpc, left, chanLen, chanClosed, ctxDone, sent, crashed>>

\* runConsumer, case <-ticker.C
ConsumerTick ==
    /\ ~crashed /\ cpc = "loop"
    /\ batch > 0
    /\ FlushBatch
    /\ UNCHANGED <<mpc, left, chanLen, chanClosed, ctxDone, cpc, sent, crashed>>

\* runConsumer, case <-ctx.Done(): flush the batch and return, whatever the
\* channel still holds.
ConsumerCtxDone ==
    /\ ~crashed /\ cpc = "loop"
    /\ ctxDone
    /\ FlushBatch
    /\ cpc' = "returned"
    /\ UNCHANGED <<mpc, left, chanLen, chanClosed, ctxDone, sent, crashed>>

AgentRest == <<globalVars, registryVars, runVars, regVars, recVars, opsVars, provVars, sdVars,
               bagVars, httpVars, grpcVars, againVars, accVars, reinitVars>>

NextAgent ==
    \/ \E p \in Producers : ProducerSend(p) /\ UNCHANGED AgentRest
    \/ MainProducersDone /\ UNCHANGED AgentRest
    \/ MainSignal /\ UNCHANGED AgentRest
    \/ MainClose /\ UNCHANGED AgentRest
    \/ MainExit /\ UNCHANGED AgentRest
    \/ ConsumerReceive /\ UNCHANGED AgentRest
    \/ ConsumerClosed /\ UNCHANGED AgentRest
    \/ ConsumerTick /\ UNCHANGED AgentRest
    \/ ConsumerCtxDone /\ UNCHANGED AgentRest

SpecAgent == Init /\ [][NextAgent]_vars

\* C30: no producer sends on entriesChan after main has closed it, and when
\* the agent exits every entry sent has been flushed.
C30_NoSendAfterCloseNoEntryLost ==
    /\ ~crashed
    /\ mpc = "exit" => flushed = sent

====
